---- MODULE Spec2Model ----
(***************************************************************************)
(* A model of WalletBackend (src/src/walletbackend/WalletBackend.cpp):     *)
(* the prepared-transaction cache and the transaction pipeline that is     *)
(* serialised by m_transactionMutex, and the lifecycle operations that run *)
(* through the synchronizer guard                                          *)
(* (m_syncRAIIWrapper->pauseSynchronizerToRunFunction); and of the event   *)
(* loop of MinerManager (src/src/miner/MinerManager.cpp).                  *)
(***************************************************************************)
EXTENDS Integers, Sequences, FiniteSets, TLC

(***************************************************************************)
(* Bounds of the model.                                                    *)
(***************************************************************************)
NumThreads == 2
NumHashes == 2
MaxHeight == 2
MaxTransactions == 3
(* Events pushed to the miner's queue, mining tasks started, and the       *)
(* largest m_config.blocksLimit.                                           *)
MaxEvents == 4
MaxTasks == 3
MaxBlocksLimit == 2

Threads == 1..NumThreads
Hashes == 1..NumHashes
(* Two transactions that could carry the same hash are enough to tell an   *)
(* overwritten cache entry from a kept one.                                 *)
Payloads == {"tx_a", "tx_b"}

(* Crypto::Hash(): the default hash returned next to an error.            *)
NullHash == 0
(* No thread holds m_transactionMutex.                                     *)
NoThread == 0

(* WalletTypes::PreparedTransactionInfo; transactionHash is its identity.  *)
PreparedTransactionInfo == [transactionHash : Hashes, payload : Payloads]
(* A default-constructed PreparedTransactionInfo.                          *)
NoPrepared == [transactionHash |-> NullHash, payload |-> "none"]

(* The error kinds the transaction pipeline passes through.                *)
SubmitErrors == {"SUCCESS", "PREPARED_TRANSACTION_EXPIRED", "DAEMON_OFFLINE"}
BuildErrors == {"SUCCESS", "NOT_ENOUGH_BALANCE"}

VARIABLES
    m_preparedTransactions, \* hash-keyed cache: a function on a subset of Hashes
    m_transactionMutex,     \* the thread holding the transaction lock, or NoThread
    pc,                     \* position of each caller thread
    call,                   \* the locals of the operation each thread is in
    lastRet,                \* what the most recently returned operation returned
    sentOK,                 \* hashes sent with success and not inserted again since
    fg,                     \* the foreground caller of the lifecycle operations
    guardDepth,             \* pauseSynchronizerToRunFunction calls in progress
    pauseRequested,         \* the synchronizer's pause signal
    syncPc,                 \* position of the background synchronizer
    scanHeight,             \* the synchronizer's checkpoint (current scan height)
    syncWrote,              \* the synchronizer wrote while a lifecycle function ran
    endScanHeight,          \* the height the synchronizer stops at (0: none)
    subWallets,             \* registry: [addresses, txs (block heights with a transaction)]
    disk,                   \* the document last written by unsafeSave
    walletFile,             \* the wallet file: [exists, bytes]
    saved,                  \* what the last successful save wrote: container, password
    opened,                 \* what the last openWallet returned
    fileMode,               \* what can be done at the wallet's path: [readable, writable]
    made,                   \* the construction call in progress, and what it returned
    keys,                   \* the key material of the container
    keyRet,                 \* what the last key query returned
    transactions,           \* what getTransactions() returns, in its order
    rangeRet,               \* what the last getTransactionsRange returned
    m_events,               \* MinerManager: the queue of events, oldest first
    m_minedBlock,           \* the block the last finished mining task found
    m_lastBlockTimestamp,   \* timestamp of the last block the daemon accepted
    m_config,               \* the mining configuration: [blocksLimit]
    eventLoop,              \* eventLoop(): position, blocksMined, the event handled last
    checker,                \* position of the context of startBlockchainChecker
    mining,                 \* the tasks of startMining that are inside m_miner.mine
    minerCount              \* how many tasks were started and events pushed so far

txVars == <<m_preparedTransactions, m_transactionMutex, pc, call, lastRet, sentOK>>

guardVars == <<fg, guardDepth, pauseRequested, syncPc, scanHeight, syncWrote,
               endScanHeight, subWallets, disk>>

codecVars == <<walletFile, saved, opened>>

minerVars == <<m_events, m_minedBlock, m_lastBlockTimestamp, m_config, eventLoop,
               checker, mining, minerCount>>

objVars == <<fileMode, made, minerVars>>

queryVars == <<keys, keyRet, transactions, rangeRet, minerVars>>

otherVars == <<fileMode, made, keys, keyRet, transactions, rangeRet, minerVars>>

walletVars == <<txVars, guardVars, codecVars,
                fileMode, made, keys, keyRet, transactions, rangeRet>>

vars == <<m_preparedTransactions, m_transactionMutex, pc, call, lastRet, sentOK,
          fg, guardDepth, pauseRequested, syncPc, scanHeight, syncWrote,
          endScanHeight, subWallets, disk, walletFile, saved, opened,
          fileMode, made, keys, keyRet, transactions, rangeRet,
          m_events, m_minedBlock, m_lastBlockTimestamp, m_config, eventLoop,
          checker, mining, minerCount>>

(***************************************************************************)
(* The std::unordered_map operations used on m_preparedTransactions.       *)
(***************************************************************************)
MapErase(m, h) == [k \in DOMAIN m \ {h} |-> m[k]]

MapAssign(m, h, v) == [k \in DOMAIN m \cup {h} |-> IF k = h THEN v ELSE m[k]]

IdleCall ==
    [op |-> "none", h |-> NullHash, send |-> FALSE, ptx |-> NoPrepared,
     error |-> "SUCCESS", hash |-> NullHash, submitted |-> FALSE,
     broadcast |-> FALSE, wasSent |-> FALSE]

NoRet ==
    [tick |-> 0, op |-> "none", h |-> NullHash, send |-> FALSE,
     ptx |-> NoPrepared, error |-> "SUCCESS", hash |-> NullHash,
     submitted |-> FALSE, broadcast |-> FALSE, wasSent |-> FALSE,
     removed |-> FALSE, again |-> FALSE, prevRemoved |-> FALSE]

(* The record an operation leaves behind when it returns.                  *)
Returned(c, removed, again) ==
    [tick |-> 1 - lastRet.tick, op |-> c.op, h |-> c.h, send |-> c.send,
     ptx |-> c.ptx, error |-> c.error, hash |-> c.hash,
     submitted |-> c.submitted, broadcast |-> c.broadcast,
     wasSent |-> c.wasSent, removed |-> removed, again |-> again,
     prevRemoved |-> again /\ lastRet.removed]

TxInit ==
    /\ m_preparedTransactions = [k \in {} |-> NoPrepared]
    /\ m_transactionMutex = NoThread
    /\ pc = [t \in Threads |-> "idle"]
    /\ call = [t \in Threads |-> IdleCall]
    /\ lastRet = NoRet
    /\ sentOK = {}

(***************************************************************************)
(* removePreparedTransaction: erase the key, report whether it was there.  *)
(***************************************************************************)
ErasePrepared_Noop(m, h) == m

ErasePrepared(m, h) == MapErase(m, h)

ErasedOne(m, h) == h \in DOMAIN m

RemovePreparedTransaction(t, h) ==
    /\ pc[t] = "idle"
    /\ m_preparedTransactions' = ErasePrepared(m_preparedTransactions, h)
    /\ lastRet' = Returned([IdleCall EXCEPT !.op = "removePreparedTransaction", !.h = h],
                           ErasedOne(m_preparedTransactions, h),
                           lastRet.op = "removePreparedTransaction" /\ lastRet.h = h)
    /\ UNCHANGED <<m_transactionMutex, pc, call, sentOK>>
    /\ UNCHANGED <<guardVars, codecVars, otherVars>>

(***************************************************************************)
(* sendPreparedTransaction                                                 *)
(***************************************************************************)
SendPrepared_lock_Pausing(t, h) ==
    /\ pc[t] = "idle"
    /\ m_transactionMutex = NoThread
    /\ m_transactionMutex' = t
    /\ pc' = [pc EXCEPT ![t] = "sp_find"]
    /\ call' = [call EXCEPT ![t] = [IdleCall EXCEPT !.op = "sendPreparedTransaction", !.h = h]]
    /\ pauseRequested' = TRUE
    /\ UNCHANGED <<m_preparedTransactions, lastRet, sentOK>>
    /\ UNCHANGED <<fg, guardDepth, syncPc, scanHeight, syncWrote, endScanHeight, subWallets, disk>>
    /\ UNCHANGED <<codecVars, otherVars>>

SendPrepared_lock(t, h) ==
    /\ pc[t] = "idle"
    /\ m_transactionMutex = NoThread
    /\ m_transactionMutex' = t
    /\ pc' = [pc EXCEPT ![t] = "sp_find"]
    /\ call' = [call EXCEPT ![t] = [IdleCall EXCEPT !.op = "sendPreparedTransaction", !.h = h]]
    /\ UNCHANGED <<m_preparedTransactions, lastRet, sentOK>>
    /\ UNCHANGED <<guardVars, codecVars, otherVars>>

SendPrepared_find_Subscript(t) ==
    /\ pc[t] = "sp_find"
    /\ LET c == [call[t] EXCEPT !.wasSent = call[t].h \in sentOK]
           m == IF c.h \in DOMAIN m_preparedTransactions
                THEN m_preparedTransactions
                ELSE MapAssign(m_preparedTransactions, c.h, NoPrepared)
       IN /\ m_preparedTransactions' = m
          /\ call' = [call EXCEPT ![t] = [c EXCEPT !.ptx = m[c.h]]]
    /\ pc' = [pc EXCEPT ![t] = "sp_submit"]
    /\ UNCHANGED <<lastRet, m_transactionMutex, sentOK>>
    /\ UNCHANGED <<guardVars, codecVars, otherVars>>

SendPrepared_find(t) ==
    /\ pc[t] = "sp_find"
    /\ LET c == [call[t] EXCEPT !.wasSent = call[t].h \in sentOK] IN
       IF call[t].h \notin DOMAIN m_preparedTransactions
       THEN /\ lastRet' = Returned([c EXCEPT !.error = "PREPARED_TRANSACTION_NOT_FOUND",
                                             !.hash = NullHash], FALSE, FALSE)
            /\ pc' = [pc EXCEPT ![t] = "idle"]
            /\ call' = [call EXCEPT ![t] = IdleCall]
            /\ m_transactionMutex' = NoThread
       ELSE /\ call' = [call EXCEPT ![t] = [c EXCEPT !.ptx = m_preparedTransactions[c.h]]]
            /\ pc' = [pc EXCEPT ![t] = "sp_submit"]
            /\ UNCHANGED <<lastRet, m_transactionMutex>>
    /\ UNCHANGED <<m_preparedTransactions, sentOK>>
    /\ UNCHANGED <<guardVars, codecVars, otherVars>>

(* SendTransaction::sendPreparedTransaction: hands the transaction to the  *)
(* daemon; it is relayed exactly when the result is SUCCESS.               *)
SendPrepared_submit(t) ==
    /\ pc[t] = "sp_submit"
    /\ \E e \in SubmitErrors :
         call' = [call EXCEPT ![t] =
                    [@ EXCEPT !.error = e,
                              !.hash = IF e = "SUCCESS" THEN call[t].ptx.transactionHash ELSE NullHash,
                              !.submitted = TRUE,
                              !.broadcast = (e = "SUCCESS")]]
    /\ pc' = [pc EXCEPT ![t] = "sp_remove"]
    /\ UNCHANGED <<m_preparedTransactions, m_transactionMutex, lastRet, sentOK>>
    /\ UNCHANGED <<guardVars, codecVars, otherVars>>

RemoveAfterSend_OnlyExpired(error) == error = "PREPARED_TRANSACTION_EXPIRED"

RemoveAfterSend_Always(error) == TRUE

(* if (error == PREPARED_TRANSACTION_EXPIRED || !error)                    *)
RemoveAfterSend(error) == error = "PREPARED_TRANSACTION_EXPIRED" \/ error = "SUCCESS"

SendPrepared_remove(t) ==
    /\ pc[t] = "sp_remove"
    /\ LET c == call[t]
           rm == RemoveAfterSend(c.error)
       IN /\ m_preparedTransactions' =
                IF rm THEN ErasePrepared(m_preparedTransactions, c.ptx.transactionHash)
                ELSE m_preparedTransactions
          /\ lastRet' = Returned(c, rm /\ ErasedOne(m_preparedTransactions, c.ptx.transactionHash), FALSE)
          /\ sentOK' = IF c.error = "SUCCESS" THEN sentOK \cup {c.h} ELSE sentOK
    /\ pc' = [pc EXCEPT ![t] = "idle"]
    /\ call' = [call EXCEPT ![t] = IdleCall]
    /\ m_transactionMutex' = NoThread
    /\ UNCHANGED <<guardVars, codecVars, otherVars>>

(***************************************************************************)
(* sendTransactionBasic / sendTransactionAdvanced                          *)
(***************************************************************************)
(* SendTransaction::sendTransactionBasic / Advanced: build, and relay when *)
(* asked to; an error comes with a default hash and prepared transaction.  *)
BuildResults ==
    [error : {"SUCCESS"}, ptx : PreparedTransactionInfo]
        \cup [error : BuildErrors \ {"SUCCESS"}, ptx : {NoPrepared}]

Prepare_lock(t, op, send) ==
    /\ pc[t] = "idle"
    /\ m_transactionMutex = NoThread
    /\ m_transactionMutex' = t
    /\ pc' = [pc EXCEPT ![t] = "st_build"]
    /\ call' = [call EXCEPT ![t] = [IdleCall EXCEPT !.op = op, !.send = send]]
    /\ UNCHANGED <<m_preparedTransactions, lastRet, sentOK>>
    /\ UNCHANGED <<guardVars, codecVars, otherVars>>

Prepare_build(t, op) ==
    /\ pc[t] = "st_build"
    /\ call[t].op = op
    /\ \E r \in BuildResults :
         call' = [call EXCEPT ![t] =
                    [@ EXCEPT !.error = r.error,
                              !.hash = r.ptx.transactionHash,
                              !.ptx = r.ptx,
                              !.broadcast = (call[t].send /\ r.error = "SUCCESS")]]
    /\ pc' = [pc EXCEPT ![t] = "st_cache"]
    /\ UNCHANGED <<m_preparedTransactions, m_transactionMutex, lastRet, sentOK>>
    /\ UNCHANGED <<guardVars, codecVars, otherVars>>

CacheBasic_Emplace(m, sendTransaction, error, hash, preparedTransaction) ==
    IF ~sendTransaction /\ error = "SUCCESS" /\ hash \notin DOMAIN m
    THEN MapAssign(m, hash, preparedTransaction)
    ELSE m

CacheAdvanced_IgnoresSendFlag(m, sendTransaction, error, hash, preparedTransaction) ==
    IF error = "SUCCESS"
    THEN MapAssign(m, hash, preparedTransaction)
    ELSE m

(* if (!sendTransaction && !error) m_preparedTransactions[hash] = ...      *)
CacheBasic(m, sendTransaction, error, hash, preparedTransaction) ==
    IF ~sendTransaction /\ error = "SUCCESS"
    THEN MapAssign(m, hash, preparedTransaction)
    ELSE m

CacheAdvanced(m, sendTransaction, error, hash, preparedTransaction) ==
    IF ~sendTransaction /\ error = "SUCCESS"
    THEN MapAssign(m, hash, preparedTransaction)
    ELSE m

Prepare_cache(t, op, cached) ==
    /\ pc[t] = "st_cache"
    /\ call[t].op = op
    /\ m_preparedTransactions' = cached
    /\ sentOK' = IF ~call[t].send /\ call[t].error = "SUCCESS"
                 THEN sentOK \ {call[t].hash}
                 ELSE sentOK
    /\ lastRet' = Returned(call[t], FALSE, FALSE)
    /\ pc' = [pc EXCEPT ![t] = "idle"]
    /\ call' = [call EXCEPT ![t] = IdleCall]
    /\ m_transactionMutex' = NoThread
    /\ UNCHANGED <<guardVars, codecVars, otherVars>>

SendTransactionBasic_lock(t, send) == Prepare_lock(t, "sendTransactionBasic", send)

SendTransactionBasic_build(t) == Prepare_build(t, "sendTransactionBasic")

SendTransactionBasic_cache(t) ==
    Prepare_cache(t, "sendTransactionBasic",
        CacheBasic(m_preparedTransactions, call[t].send, call[t].error,
                   call[t].hash, call[t].ptx))

SendTransactionAdvanced_lock(t, send) == Prepare_lock(t, "sendTransactionAdvanced", send)

SendTransactionAdvanced_build(t) == Prepare_build(t, "sendTransactionAdvanced")

SendTransactionAdvanced_cache(t) ==
    Prepare_cache(t, "sendTransactionAdvanced",
        CacheAdvanced(m_preparedTransactions, call[t].send, call[t].error,
                      call[t].hash, call[t].ptx))

(* ---- sendFusionTransactionBasic / sendFusionTransactionAdvanced --------- *)
(* SendTransaction::sendFusionTransactionBasic / Advanced: an error, or    *)
(* the hash of the fusion transaction that was sent.                       *)
FusionResults ==
    {[error |-> "FULLY_OPTIMIZED", hash |-> NullHash]}
      \cup {[error |-> "SUCCESS", hash |-> h] : h \in Hashes}

FusionOps == {"sendFusionTransactionBasic", "sendFusionTransactionAdvanced"}

Fusion_lock_NoLock(t, op) ==
    /\ pc[t] = "idle"
    /\ m_transactionMutex' = t
    /\ pc' = [pc EXCEPT ![t] = "fu_send"]
    /\ call' = [call EXCEPT ![t] = [IdleCall EXCEPT !.op = op, !.send = TRUE]]
    /\ UNCHANGED <<m_preparedTransactions, lastRet, sentOK>>
    /\ UNCHANGED <<guardVars, codecVars, otherVars>>

(* std::scoped_lock lock(m_transactionMutex);                              *)
Fusion_lock(t, op) ==
    /\ pc[t] = "idle"
    /\ m_transactionMutex = NoThread
    /\ m_transactionMutex' = t
    /\ pc' = [pc EXCEPT ![t] = "fu_send"]
    /\ call' = [call EXCEPT ![t] = [IdleCall EXCEPT !.op = op, !.send = TRUE]]
    /\ UNCHANGED <<m_preparedTransactions, lastRet, sentOK>>
    /\ UNCHANGED <<guardVars, codecVars, otherVars>>

Fusion_send_Caches(t, op) ==
    /\ pc[t] = "fu_send"
    /\ call[t].op = op
    /\ \E r \in FusionResults :
         /\ lastRet' = Returned([call[t] EXCEPT !.error = r.error, !.hash = r.hash,
                                                !.broadcast = (r.error = "SUCCESS")],
                                FALSE, FALSE)
         /\ m_preparedTransactions' =
              IF r.error = "SUCCESS"
              THEN MapAssign(m_preparedTransactions, r.hash,
                             [transactionHash |-> r.hash, payload |-> "tx_a"])
              ELSE m_preparedTransactions
    /\ m_transactionMutex' = NoThread
    /\ pc' = [pc EXCEPT ![t] = "idle"]
    /\ call' = [call EXCEPT ![t] = IdleCall]
    /\ UNCHANGED sentOK
    /\ UNCHANGED <<guardVars, codecVars, otherVars>>

(* return SendTransaction::sendFusionTransaction...(...): the result is    *)
(* returned as it is and the lock is released; the cache is not used.      *)
Fusion_send(t, op) ==
    /\ pc[t] = "fu_send"
    /\ call[t].op = op
    /\ \E r \in FusionResults :
         lastRet' = Returned([call[t] EXCEPT !.error = r.error, !.hash = r.hash,
                                             !.broadcast = (r.error = "SUCCESS")],
                             FALSE, FALSE)
    /\ m_transactionMutex' = NoThread
    /\ pc' = [pc EXCEPT ![t] = "idle"]
    /\ call' = [call EXCEPT ![t] = IdleCall]
    /\ UNCHANGED <<m_preparedTransactions, sentOK>>
    /\ UNCHANGED <<guardVars, codecVars, otherVars>>

SendFusionTransactionBasic_lock(t) == Fusion_lock(t, "sendFusionTransactionBasic")

SendFusionTransactionBasic_send(t) == Fusion_send(t, "sendFusionTransactionBasic")

SendFusionTransactionAdvanced_lock(t) == Fusion_lock(t, "sendFusionTransactionAdvanced")

SendFusionTransactionAdvanced_send(t) == Fusion_send(t, "sendFusionTransactionAdvanced")

FusionNext ==
    \/ \E t \in Threads : SendFusionTransactionBasic_lock(t)
    \/ \E t \in Threads : SendFusionTransactionBasic_send(t)
    \/ \E t \in Threads : SendFusionTransactionAdvanced_lock(t)
    \/ \E t \in Threads : SendFusionTransactionAdvanced_send(t)

TxNext ==
    \/ \E t \in Threads, h \in Hashes : RemovePreparedTransaction(t, h)
    \/ \E t \in Threads, h \in Hashes : SendPrepared_lock(t, h)
    \/ \E t \in Threads : SendPrepared_find(t)
    \/ \E t \in Threads : SendPrepared_submit(t)
    \/ \E t \in Threads : SendPrepared_remove(t)
    \/ \E t \in Threads, send \in BOOLEAN : SendTransactionBasic_lock(t, send)
    \/ \E t \in Threads : SendTransactionBasic_build(t)
    \/ \E t \in Threads : SendTransactionBasic_cache(t)
    \/ \E t \in Threads, send \in BOOLEAN : SendTransactionAdvanced_lock(t, send)
    \/ \E t \in Threads : SendTransactionAdvanced_build(t)
    \/ \E t \in Threads : SendTransactionAdvanced_cache(t)

(***************************************************************************)
(* The lifecycle operations, the synchronizer guard and the synchronizer.  *)
(***************************************************************************)
Heights == 0..MaxHeight
(* Timestamp 0 stands for "none"; the others convert to different heights. *)
Timestamps == {0, 2, 4}
(* Two sub-wallets: one in the registry from the start, one to import.    *)
Addresses == {1, 2}

(* No height was handed to the synchronizer or to the registry yet.        *)
NoHeight == -1

ImportOps == {"importSubWallet", "importSubWalletIndex", "importViewSubWallet"}

IdleFg ==
    [pc |-> "idle", op |-> "none", scanHeight |-> 0, timestamp |-> 0,
     address |-> 0, result |-> "SUCCESS", threw |-> FALSE, inner |-> FALSE,
     endScanHeight |-> 0, currentHeight |-> 0,
     argHeight |-> 0, argTimestamp |-> 0, syncCut |-> NoHeight, regCut |-> NoHeight,
     persist |-> "SUCCESS", subWalletsJSON |-> {}]

NoDisk == [scanHeight |-> 0, txs |-> {}, written |-> FALSE]

GuardInit ==
    /\ fg = IdleFg
    /\ guardDepth = 0
    /\ pauseRequested = FALSE
    /\ syncPc = "check"
    /\ scanHeight = 0
    /\ syncWrote = FALSE
    /\ endScanHeight = 0
    /\ subWallets = [addresses |-> {1}, txs |-> {}]
    /\ disk = NoDisk

(* The body of each guarded function starts here.                          *)
FirstPc(op) ==
    CASE op = "save" -> "sv_json"
      [] op = "rewind" -> "rw_sync"
      [] op = "reset" -> "rs_sync"
      [] op = "deleteSubWallet" -> "ds_delete"
      [] op = "addSubWallet" -> "as_add"
      [] op = "reentrant" -> "rn_inner"
      [] op = "scanRange" -> "sr_sync"
      [] op = "changePassword" -> "sv_json"
      [] op = "swapNode" -> "sn_swap"
      [] op \in ImportOps -> "im_import"

(* The positions of the caller inside a function that was handed to the   *)
(* guard, up to the point where the guard resumes the synchronizer.        *)
FunctionPcs ==
    {"sv_json", "sv_save", "rw_sync", "rw_subwallets", "rw_json", "rw_save",
     "rs_sync", "rs_subwallets", "rs_json", "rs_save",
     "as_add", "ds_delete", "rn_inner", "rn_after", "g_exit",
     "sr_sync", "sr_subwallets", "sr_end", "sr_json", "sr_save",
     "im_import", "im_height", "im_sync", "ik_subwallets", "ii_subwallets",
     "iv_subwallets", "sn_swap"}

(* ---- the background synchronizer --------------------------------------- *)
Sync_check_IgnoresPause ==
    /\ syncPc = "check"
    /\ syncPc' = "work"
    /\ UNCHANGED <<fg, guardDepth, pauseRequested, scanHeight, syncWrote, subWallets, disk>>
    /\ UNCHANGED <<endScanHeight, txVars, codecVars, otherVars>>

(* The loop looks at the pause signal before every unit of scan work.      *)
Sync_check ==
    /\ syncPc = "check"
    /\ syncPc' = IF pauseRequested THEN "paused" ELSE "work"
    /\ UNCHANGED <<fg, guardDepth, pauseRequested, scanHeight, syncWrote, subWallets, disk>>
    /\ UNCHANGED <<endScanHeight, txVars, codecVars, otherVars>>

(* One unit of scan work: the next block, and the transactions found in it. *)
(* At the end scan height the synchronizer stops and resumes at the top of *)
(* the chain.                                                              *)
Sync_work ==
    /\ syncPc = "work"
    /\ IF endScanHeight # 0 /\ scanHeight >= endScanHeight
       THEN /\ scanHeight' = MaxHeight
            /\ endScanHeight' = 0
            /\ syncWrote' = (syncWrote \/ fg.pc \in FunctionPcs)
            /\ UNCHANGED subWallets
       ELSE IF scanHeight < MaxHeight
       THEN /\ scanHeight' = scanHeight + 1
            /\ syncWrote' = (syncWrote \/ fg.pc \in FunctionPcs)
            /\ \E found \in BOOLEAN :
                 subWallets' = [subWallets EXCEPT !.txs =
                                  IF found THEN @ \cup {scanHeight + 1} ELSE @]
            /\ UNCHANGED endScanHeight
       ELSE UNCHANGED <<scanHeight, syncWrote, subWallets, endScanHeight>>
    /\ syncPc' = "check"
    /\ UNCHANGED <<fg, guardDepth, pauseRequested, disk>>
    /\ UNCHANGED <<txVars, codecVars, otherVars>>

Sync_resume ==
    /\ syncPc = "paused"
    /\ ~pauseRequested
    /\ syncPc' = "check"
    /\ UNCHANGED <<fg, guardDepth, pauseRequested, scanHeight, syncWrote, subWallets, disk>>
    /\ UNCHANGED <<endScanHeight, txVars, codecVars, otherVars>>

(* ---- pauseSynchronizerToRunFunction ------------------------------------ *)
Guard_enter_NonReentrant ==
    /\ fg.pc = "g_enter"
    /\ guardDepth = 0
    /\ guardDepth' = guardDepth + 1
    /\ pauseRequested' = TRUE
    /\ fg' = [fg EXCEPT !.pc = "g_wait"]
    /\ UNCHANGED <<syncPc, scanHeight, syncWrote, subWallets, disk>>
    /\ UNCHANGED <<endScanHeight, txVars, codecVars, otherVars>>

(* Signal the synchronizer to pause.                                       *)
Guard_enter ==
    /\ fg.pc = "g_enter"
    /\ guardDepth' = guardDepth + 1
    /\ pauseRequested' = TRUE
    /\ fg' = [fg EXCEPT !.pc = "g_wait"]
    /\ UNCHANGED <<syncPc, scanHeight, syncWrote, subWallets, disk>>
    /\ UNCHANGED <<endScanHeight, txVars, codecVars, otherVars>>

(* Block until the synchronizer acknowledges, then run the function.       *)
Guard_wait ==
    /\ fg.pc = "g_wait"
    /\ syncPc = "paused"
    /\ fg' = [fg EXCEPT !.pc = FirstPc(IF fg.inner THEN "save" ELSE fg.op)]
    /\ syncWrote' = IF fg.inner THEN syncWrote ELSE FALSE
    /\ UNCHANGED <<guardDepth, pauseRequested, syncPc, scanHeight, subWallets, disk>>
    /\ UNCHANGED <<endScanHeight, txVars, codecVars, otherVars>>

Guard_exit_NoResumeOnThrow ==
    /\ fg.pc = "g_exit"
    /\ guardDepth' = guardDepth - 1
    /\ pauseRequested' = IF fg.threw THEN pauseRequested ELSE (guardDepth - 1 > 0)
    /\ fg' = IF guardDepth - 1 > 0
             THEN [fg EXCEPT !.pc = IF fg.threw THEN "g_exit" ELSE "rn_after",
                             !.inner = FALSE]
             ELSE [fg EXCEPT !.pc = "done"]
    /\ UNCHANGED <<syncPc, scanHeight, syncWrote, subWallets, disk>>
    /\ UNCHANGED <<endScanHeight, txVars, codecVars, otherVars>>

(* Resume the synchronizer, whether the function returned or threw, then   *)
(* return or rethrow.                                                      *)
Guard_exit ==
    /\ fg.pc = "g_exit"
    /\ guardDepth' = guardDepth - 1
    /\ pauseRequested' = (guardDepth - 1 > 0)
    /\ fg' = IF guardDepth - 1 > 0
             THEN [fg EXCEPT !.pc = IF fg.threw THEN "g_exit" ELSE "rn_after",
                             !.inner = FALSE]
             ELSE [fg EXCEPT !.pc = "done"]
    /\ UNCHANGED <<syncPc, scanHeight, syncWrote, subWallets, disk>>
    /\ UNCHANGED <<endScanHeight, txVars, codecVars, otherVars>>

(* Where control goes when a function returns or throws: back into the     *)
(* guard that called it, if one did.                                       *)
FunctionEnd == IF guardDepth > 0 THEN "g_exit" ELSE "done"

(* ---- collaborators ------------------------------------------------------ *)
(* Utilities::timestampToScanHeight                                        *)
timestampToScanHeight(timestamp) == timestamp \div 2

(* WalletSynchronizer::rewind / reset: the checkpoint becomes the height.  *)
SynchronizerRewind(height) == height

SynchronizerReset(height) == height

(* SubWallets::rewind: drop what was found at or above the height.         *)
SubWalletsRewind(sw, height) == [sw EXCEPT !.txs = {h \in @ : h < height}]

(* SubWallets::reset: drop every transaction and input.                    *)
SubWalletsReset(sw, height) == [sw EXCEPT !.txs = {}]

(* ---- save / unsafeSave -------------------------------------------------- *)
Save_call_Unguarded ==
    /\ fg.pc = "idle"
    /\ fg' = [IdleFg EXCEPT !.pc = "sv_json", !.op = "save"]
    /\ syncWrote' = FALSE
    /\ UNCHANGED <<guardDepth, pauseRequested, syncPc, scanHeight, subWallets, disk>>
    /\ UNCHANGED <<endScanHeight, txVars, codecVars, otherVars>>

(* save(): pauseSynchronizerToRunFunction([this]() { return unsafeSave(); }) *)
Save_call ==
    /\ fg.pc = "idle"
    /\ fg' = [IdleFg EXCEPT !.pc = "g_enter", !.op = "save"]
    /\ UNCHANGED <<guardDepth, pauseRequested, syncPc, scanHeight, syncWrote, subWallets, disk>>
    /\ UNCHANGED <<endScanHeight, txVars, codecVars, otherVars>>

SaveOutcomes == {"SUCCESS", "INVALID_WALLET_FILENAME", "throw"}

(* Where unsafeSave goes on after the registry is serialised.              *)
AfterSubWalletsJSON ==
    [sv_json |-> "sv_save", rw_json |-> "rw_save", rs_json |-> "rs_save",
     sr_json |-> "sr_save"]

(* unsafeToJSON, as unsafeSave calls it: writer.Key("subWallets");         *)
(* m_subWallets->toJSON(writer);                                           *)
UnsafeToJSON_subWallets ==
    /\ fg.pc \in DOMAIN AfterSubWalletsJSON
    /\ fg' = [fg EXCEPT !.pc = AfterSubWalletsJSON[fg.pc],
                        !.subWalletsJSON = subWallets.txs]
    /\ UNCHANGED <<guardDepth, pauseRequested, syncPc, scanHeight, syncWrote, subWallets, disk>>
    /\ UNCHANGED <<endScanHeight, txVars, codecVars, otherVars>>

(* The rest of unsafeSave: writer.Key("walletSynchronizer");               *)
(* m_walletSynchronizer->toJSON(writer); and the document is written.      *)
UnsafeSave(outcome) ==
    /\ disk' = IF outcome = "SUCCESS"
               THEN [scanHeight |-> scanHeight, txs |-> fg.subWalletsJSON,
                     written |-> TRUE]
               ELSE disk
    /\ UNCHANGED <<guardDepth, pauseRequested, syncPc, scanHeight, syncWrote, subWallets>>

Save_unsafeSave ==
    /\ fg.pc = "sv_save"
    /\ \E outcome \in SaveOutcomes :
         /\ UnsafeSave(outcome)
         /\ fg' = [fg EXCEPT !.pc = FunctionEnd,
                             !.threw = (outcome = "throw"),
                             !.result = IF outcome = "throw" THEN @ ELSE outcome,
                             !.persist = IF outcome = "throw" THEN @ ELSE outcome]
    /\ UNCHANGED <<endScanHeight, txVars, codecVars, otherVars>>

(* ---- rewind ------------------------------------------------------------- *)
Rewind_call_Unguarded(height, timestamp) ==
    /\ fg.pc = "idle"
    /\ fg' = [IdleFg EXCEPT !.pc = "rw_sync", !.op = "rewind",
                            !.scanHeight = height, !.timestamp = timestamp,
                            !.argHeight = height, !.argTimestamp = timestamp]
    /\ syncWrote' = FALSE
    /\ UNCHANGED <<guardDepth, pauseRequested, syncPc, scanHeight, subWallets, disk>>
    /\ UNCHANGED <<endScanHeight, txVars, codecVars, otherVars>>

Rewind_call(height, timestamp) ==
    /\ fg.pc = "idle"
    /\ fg' = [IdleFg EXCEPT !.pc = "g_enter", !.op = "rewind",
                            !.scanHeight = height, !.timestamp = timestamp,
                            !.argHeight = height, !.argTimestamp = timestamp]
    /\ UNCHANGED <<guardDepth, pauseRequested, syncPc, scanHeight, syncWrote, subWallets, disk>>
    /\ UNCHANGED <<endScanHeight, txVars, codecVars, otherVars>>

(* if (timestamp != 0) scanHeight = timestampToScanHeight(timestamp);      *)
(* m_walletSynchronizer->rewind(scanHeight);                               *)
Rewind_sync ==
    /\ fg.pc = "rw_sync"
    /\ LET height == IF fg.timestamp # 0 THEN timestampToScanHeight(fg.timestamp)
                     ELSE fg.scanHeight
       IN /\ scanHeight' = SynchronizerRewind(height)
          /\ fg' = [fg EXCEPT !.pc = "rw_subwallets", !.scanHeight = height,
                              !.timestamp = 0, !.syncCut = height]
    /\ UNCHANGED <<guardDepth, pauseRequested, syncPc, syncWrote, subWallets, disk>>
    /\ UNCHANGED <<endScanHeight, txVars, codecVars, otherVars>>

Rewind_subWallets_ArgHeight ==
    /\ fg.pc = "rw_subwallets"
    /\ subWallets' = SubWalletsRewind(subWallets, fg.argHeight)
    /\ fg' = [fg EXCEPT !.pc = "rw_json", !.regCut = fg.argHeight]
    /\ UNCHANGED <<guardDepth, pauseRequested, syncPc, scanHeight, syncWrote, disk>>
    /\ UNCHANGED <<endScanHeight, txVars, codecVars, otherVars>>

(* m_subWallets->rewind(scanHeight);                                       *)
Rewind_subWallets ==
    /\ fg.pc = "rw_subwallets"
    /\ subWallets' = SubWalletsRewind(subWallets, fg.scanHeight)
    /\ fg' = [fg EXCEPT !.pc = "rw_json", !.regCut = fg.scanHeight]
    /\ UNCHANGED <<guardDepth, pauseRequested, syncPc, scanHeight, syncWrote, disk>>
    /\ UNCHANGED <<endScanHeight, txVars, codecVars, otherVars>>

Rewind_save_CallsSave ==
    /\ fg.pc = "rw_save"
    /\ fg' = [fg EXCEPT !.pc = "g_enter", !.inner = TRUE]
    /\ UNCHANGED <<guardDepth, pauseRequested, syncPc, scanHeight, syncWrote, subWallets, disk>>
    /\ UNCHANGED <<endScanHeight, txVars, codecVars, otherVars>>

Rewind_save ==
    /\ fg.pc = "rw_save"
    /\ \E outcome \in SaveOutcomes :
         /\ UnsafeSave(outcome)
         /\ fg' = [fg EXCEPT !.pc = FunctionEnd, !.threw = (outcome = "throw"),
                             !.persist = IF outcome = "throw" THEN @ ELSE outcome]
    /\ UNCHANGED <<endScanHeight, txVars, codecVars, otherVars>>

(* ---- reset -------------------------------------------------------------- *)
Reset_call(height, timestamp) ==
    /\ fg.pc = "idle"
    /\ fg' = [IdleFg EXCEPT !.pc = "g_enter", !.op = "reset",
                            !.scanHeight = height, !.timestamp = timestamp,
                            !.argHeight = height, !.argTimestamp = timestamp]
    /\ UNCHANGED <<guardDepth, pauseRequested, syncPc, scanHeight, syncWrote, subWallets, disk>>
    /\ UNCHANGED <<endScanHeight, txVars, codecVars, otherVars>>

Reset_sync ==
    /\ fg.pc = "rs_sync"
    /\ LET height == IF fg.timestamp # 0 THEN timestampToScanHeight(fg.timestamp)
                     ELSE fg.scanHeight
       IN /\ scanHeight' = SynchronizerReset(height)
          /\ fg' = [fg EXCEPT !.pc = "rs_subwallets", !.scanHeight = height,
                              !.timestamp = 0, !.syncCut = height]
    /\ UNCHANGED <<guardDepth, pauseRequested, syncPc, syncWrote, subWallets, disk>>
    /\ UNCHANGED <<endScanHeight, txVars, codecVars, otherVars>>

Reset_subWallets ==
    /\ fg.pc = "rs_subwallets"
    /\ subWallets' = SubWalletsReset(subWallets, fg.scanHeight)
    /\ fg' = [fg EXCEPT !.pc = "rs_json", !.regCut = fg.scanHeight]
    /\ UNCHANGED <<guardDepth, pauseRequested, syncPc, scanHeight, syncWrote, disk>>
    /\ UNCHANGED <<endScanHeight, txVars, codecVars, otherVars>>

Reset_save ==
    /\ fg.pc = "rs_save"
    /\ \E outcome \in SaveOutcomes :
         /\ UnsafeSave(outcome)
         /\ fg' = [fg EXCEPT !.pc = FunctionEnd, !.threw = (outcome = "throw"),
                             !.persist = IF outcome = "throw" THEN @ ELSE outcome]
    /\ UNCHANGED <<endScanHeight, txVars, codecVars, otherVars>>

(* ---- addSubWallet / deleteSubWallet ------------------------------------- *)
(* The registry can hold the sub-wallets of Addresses; no more are added.   *)
AddSubWallet_call ==
    /\ fg.pc = "idle"
    /\ Addresses \ subWallets.addresses # {}
    /\ fg' = [IdleFg EXCEPT !.pc = "g_enter", !.op = "addSubWallet"]
    /\ UNCHANGED <<guardDepth, pauseRequested, syncPc, scanHeight, syncWrote, subWallets, disk>>
    /\ UNCHANGED <<endScanHeight, txVars, codecVars, otherVars>>

AddSubWallet_add ==
    /\ fg.pc = "as_add"
    /\ \E a \in Addresses \ subWallets.addresses :
         /\ subWallets' = [subWallets EXCEPT !.addresses = @ \cup {a}]
         /\ fg' = [fg EXCEPT !.pc = FunctionEnd, !.address = a]
    /\ UNCHANGED <<guardDepth, pauseRequested, syncPc, scanHeight, syncWrote, disk>>
    /\ UNCHANGED <<endScanHeight, txVars, codecVars, otherVars>>

(* validateAddresses fails: the error is returned before the guard.        *)
DeleteSubWallet_call(address, valid) ==
    /\ fg.pc = "idle"
    /\ fg' = IF valid
             THEN [IdleFg EXCEPT !.pc = "g_enter", !.op = "deleteSubWallet", !.address = address]
             ELSE [IdleFg EXCEPT !.pc = "done", !.op = "deleteSubWallet", !.address = address,
                                 !.result = "ADDRESS_NOT_VALID"]
    /\ UNCHANGED <<guardDepth, pauseRequested, syncPc, scanHeight, syncWrote, subWallets, disk>>
    /\ UNCHANGED <<endScanHeight, txVars, codecVars, otherVars>>

(* m_subWallets->deleteSubWallet(address)                                  *)
DeleteSubWallet_delete ==
    /\ fg.pc = "ds_delete"
    /\ \E throws \in BOOLEAN :
         IF throws
         THEN /\ fg' = [fg EXCEPT !.pc = FunctionEnd, !.threw = TRUE]
              /\ UNCHANGED subWallets
         ELSE IF fg.address \in subWallets.addresses
         THEN /\ subWallets' = [subWallets EXCEPT !.addresses = @ \ {fg.address}]
              /\ fg' = [fg EXCEPT !.pc = FunctionEnd, !.result = "SUCCESS"]
         ELSE /\ fg' = [fg EXCEPT !.pc = FunctionEnd, !.result = "ADDRESS_NOT_IN_WALLET"]
              /\ UNCHANGED subWallets
    /\ UNCHANGED <<guardDepth, pauseRequested, syncPc, scanHeight, syncWrote, disk>>
    /\ UNCHANGED <<endScanHeight, txVars, codecVars, otherVars>>

(* ---- scanRange ---------------------------------------------------------- *)
ScanRange_call_Unguarded(height, endHeight) ==
    /\ fg.pc = "idle"
    /\ fg' = [IdleFg EXCEPT !.pc = "sr_sync", !.op = "scanRange",
                            !.scanHeight = height, !.endScanHeight = endHeight,
                            !.argHeight = height]
    /\ syncWrote' = FALSE
    /\ UNCHANGED <<guardDepth, pauseRequested, syncPc, scanHeight, subWallets, disk>>
    /\ UNCHANGED <<endScanHeight, txVars, codecVars, otherVars>>

ScanRange_call(height, endHeight) ==
    /\ fg.pc = "idle"
    /\ fg' = [IdleFg EXCEPT !.pc = "g_enter", !.op = "scanRange",
                            !.scanHeight = height, !.endScanHeight = endHeight,
                            !.argHeight = height]
    /\ UNCHANGED <<guardDepth, pauseRequested, syncPc, scanHeight, syncWrote, subWallets, disk>>
    /\ UNCHANGED <<endScanHeight, txVars, codecVars, otherVars>>

(* m_walletSynchronizer->rewind(scanHeight);                               *)
ScanRange_sync ==
    /\ fg.pc = "sr_sync"
    /\ scanHeight' = SynchronizerRewind(fg.scanHeight)
    /\ fg' = [fg EXCEPT !.pc = "sr_subwallets", !.syncCut = fg.scanHeight]
    /\ UNCHANGED <<guardDepth, pauseRequested, syncPc, syncWrote, subWallets, disk>>
    /\ UNCHANGED <<endScanHeight, txVars, codecVars, otherVars>>

(* m_subWallets->rewind(scanHeight);                                       *)
ScanRange_subWallets ==
    /\ fg.pc = "sr_subwallets"
    /\ subWallets' = SubWalletsRewind(subWallets, fg.scanHeight)
    /\ fg' = [fg EXCEPT !.pc = "sr_end", !.regCut = fg.scanHeight]
    /\ UNCHANGED <<guardDepth, pauseRequested, syncPc, scanHeight, syncWrote, disk>>
    /\ UNCHANGED <<endScanHeight, txVars, codecVars, otherVars>>

ScanRange_setEndScanHeight_Skipped ==
    /\ fg.pc = "sr_end"
    /\ fg' = [fg EXCEPT !.pc = "sr_json"]
    /\ UNCHANGED <<guardDepth, pauseRequested, syncPc, scanHeight, syncWrote, subWallets, disk>>
    /\ UNCHANGED <<endScanHeight, txVars, codecVars, otherVars>>

(* m_walletSynchronizer->setEndScanHeight(endScanHeight);                  *)
ScanRange_setEndScanHeight ==
    /\ fg.pc = "sr_end"
    /\ endScanHeight' = fg.endScanHeight
    /\ fg' = [fg EXCEPT !.pc = "sr_json"]
    /\ UNCHANGED <<guardDepth, pauseRequested, syncPc, scanHeight, syncWrote, subWallets, disk>>
    /\ UNCHANGED <<txVars, codecVars, otherVars>>

ScanRange_save ==
    /\ fg.pc = "sr_save"
    /\ \E outcome \in SaveOutcomes :
         /\ UnsafeSave(outcome)
         /\ fg' = [fg EXCEPT !.pc = FunctionEnd, !.threw = (outcome = "throw"),
                             !.persist = IF outcome = "throw" THEN @ ELSE outcome]
    /\ UNCHANGED <<endScanHeight, txVars, codecVars, otherVars>>

(* ---- importSubWallet (key), importSubWallet (index), importViewSubWallet - *)
(* validatePrivateKey fails: the error is returned before the guard.       *)
ImportSubWallet_call(address, height, valid) ==
    /\ fg.pc = "idle"
    /\ fg' = IF valid
             THEN [IdleFg EXCEPT !.pc = "g_enter", !.op = "importSubWallet",
                                 !.address = address, !.scanHeight = height]
             ELSE [IdleFg EXCEPT !.pc = "done", !.op = "importSubWallet",
                                 !.address = address, !.scanHeight = height,
                                 !.result = "INVALID_PRIVATE_KEY"]
    /\ UNCHANGED <<guardDepth, pauseRequested, syncPc, scanHeight, syncWrote, subWallets, disk>>
    /\ UNCHANGED <<endScanHeight, txVars, codecVars, otherVars>>

ImportSubWalletIndex_call(address, height) ==
    /\ fg.pc = "idle"
    /\ fg' = [IdleFg EXCEPT !.pc = "g_enter", !.op = "importSubWalletIndex",
                            !.address = address, !.scanHeight = height]
    /\ UNCHANGED <<guardDepth, pauseRequested, syncPc, scanHeight, syncWrote, subWallets, disk>>
    /\ UNCHANGED <<endScanHeight, txVars, codecVars, otherVars>>

(* validatePublicKey fails: the error is returned before the guard.        *)
ImportViewSubWallet_call(address, height, valid) ==
    /\ fg.pc = "idle"
    /\ fg' = IF valid
             THEN [IdleFg EXCEPT !.pc = "g_enter", !.op = "importViewSubWallet",
                                 !.address = address, !.scanHeight = height]
             ELSE [IdleFg EXCEPT !.pc = "done", !.op = "importViewSubWallet",
                                 !.address = address, !.scanHeight = height,
                                 !.result = "INVALID_PUBLIC_KEY"]
    /\ UNCHANGED <<guardDepth, pauseRequested, syncPc, scanHeight, syncWrote, subWallets, disk>>
    /\ UNCHANGED <<endScanHeight, txVars, codecVars, otherVars>>

(* SubWallets::importSubWallet / importViewSubWallet: a sub-wallet that is *)
(* in the registry already is refused.                                     *)
SubWalletsImportError(sw, address) ==
    IF address \in sw.addresses THEN "SUBWALLET_ALREADY_EXISTS" ELSE "SUCCESS"

SubWalletsImport(sw, address) == [sw EXCEPT !.addresses = @ \cup {address}]

(* const auto [error, address] = m_subWallets->import...(key, scanHeight); *)
Import_import ==
    /\ fg.pc = "im_import"
    /\ LET error == SubWalletsImportError(subWallets, fg.address)
       IN IF error = "SUCCESS"
          THEN /\ subWallets' = SubWalletsImport(subWallets, fg.address)
               /\ fg' = [fg EXCEPT !.pc = "im_height", !.result = error]
          ELSE /\ fg' = [fg EXCEPT !.pc = FunctionEnd, !.result = error]
               /\ UNCHANGED subWallets
    /\ UNCHANGED <<guardDepth, pauseRequested, syncPc, scanHeight, syncWrote, disk>>
    /\ UNCHANGED <<endScanHeight, txVars, codecVars, otherVars>>

Import_height_AlwaysRescan ==
    /\ fg.pc = "im_height"
    /\ fg' = [fg EXCEPT !.currentHeight = scanHeight, !.pc = "im_sync"]
    /\ UNCHANGED <<guardDepth, pauseRequested, syncPc, scanHeight, syncWrote, subWallets, disk>>
    /\ UNCHANGED <<endScanHeight, txVars, codecVars, otherVars>>

(* currentHeight = getCurrentScanHeight(); if (currentHeight >= scanHeight) *)
Import_height ==
    /\ fg.pc = "im_height"
    /\ fg' = [fg EXCEPT !.currentHeight = scanHeight,
                        !.pc = IF scanHeight >= fg.scanHeight THEN "im_sync"
                               ELSE FunctionEnd]
    /\ UNCHANGED <<guardDepth, pauseRequested, syncPc, scanHeight, syncWrote, subWallets, disk>>
    /\ UNCHANGED <<endScanHeight, txVars, codecVars, otherVars>>

Import_sync_Skipped ==
    /\ fg.pc = "im_sync"
    /\ fg' = [fg EXCEPT !.syncCut = fg.scanHeight,
                        !.pc = CASE fg.op = "importSubWallet" -> "ik_subwallets"
                                 [] fg.op = "importSubWalletIndex" -> "ii_subwallets"
                                 [] fg.op = "importViewSubWallet" -> "iv_subwallets"]
    /\ UNCHANGED <<guardDepth, pauseRequested, syncPc, scanHeight, syncWrote, subWallets, disk>>
    /\ UNCHANGED <<endScanHeight, txVars, codecVars, otherVars>>

(* m_walletSynchronizer->reset(scanHeight);                                *)
Import_sync ==
    /\ fg.pc = "im_sync"
    /\ scanHeight' = SynchronizerReset(fg.scanHeight)
    /\ fg' = [fg EXCEPT !.syncCut = fg.scanHeight,
                        !.pc = CASE fg.op = "importSubWallet" -> "ik_subwallets"
                                 [] fg.op = "importSubWalletIndex" -> "ii_subwallets"
                                 [] fg.op = "importViewSubWallet" -> "iv_subwallets"]
    /\ UNCHANGED <<guardDepth, pauseRequested, syncPc, syncWrote, subWallets, disk>>
    /\ UNCHANGED <<endScanHeight, txVars, codecVars, otherVars>>

(* The registry call under "Reset transactions, inputs, etc" in each of    *)
(* the three imports.                                                      *)
RegistryRollback(op, sw, height) ==
    CASE op = "importSubWallet" -> SubWalletsRewind(sw, height)
      [] op = "importSubWalletIndex" -> SubWalletsReset(sw, height)
      [] op = "importViewSubWallet" -> SubWalletsReset(sw, height)

(* importSubWallet by key: m_subWallets->rewind(scanHeight);               *)
ImportSubWallet_subWallets ==
    /\ fg.pc = "ik_subwallets"
    /\ subWallets' = SubWalletsRewind(subWallets, fg.scanHeight)
    /\ fg' = [fg EXCEPT !.pc = FunctionEnd, !.regCut = fg.scanHeight]
    /\ UNCHANGED <<guardDepth, pauseRequested, syncPc, scanHeight, syncWrote, disk>>
    /\ UNCHANGED <<endScanHeight, txVars, codecVars, otherVars>>

(* importSubWallet by index: m_subWallets->reset(scanHeight);              *)
ImportSubWalletIndex_subWallets ==
    /\ fg.pc = "ii_subwallets"
    /\ subWallets' = SubWalletsReset(subWallets, fg.scanHeight)
    /\ fg' = [fg EXCEPT !.pc = FunctionEnd, !.regCut = fg.scanHeight]
    /\ UNCHANGED <<guardDepth, pauseRequested, syncPc, scanHeight, syncWrote, disk>>
    /\ UNCHANGED <<endScanHeight, txVars, codecVars, otherVars>>

(* importViewSubWallet: m_subWallets->reset(scanHeight);                   *)
ImportViewSubWallet_subWallets ==
    /\ fg.pc = "iv_subwallets"
    /\ subWallets' = SubWalletsReset(subWallets, fg.scanHeight)
    /\ fg' = [fg EXCEPT !.pc = FunctionEnd, !.regCut = fg.scanHeight]
    /\ UNCHANGED <<guardDepth, pauseRequested, syncPc, scanHeight, syncWrote, disk>>
    /\ UNCHANGED <<endScanHeight, txVars, codecVars, otherVars>>

(* ---- a guarded function that makes a guarded call (save) ---------------- *)
Reentrant_call ==
    /\ fg.pc = "idle"
    /\ fg' = [IdleFg EXCEPT !.pc = "g_enter", !.op = "reentrant"]
    /\ UNCHANGED <<guardDepth, pauseRequested, syncPc, scanHeight, syncWrote, subWallets, disk>>
    /\ UNCHANGED <<endScanHeight, txVars, codecVars, otherVars>>

Reentrant_inner ==
    /\ fg.pc = "rn_inner"
    /\ fg' = [fg EXCEPT !.pc = "g_enter", !.inner = TRUE]
    /\ UNCHANGED <<guardDepth, pauseRequested, syncPc, scanHeight, syncWrote, subWallets, disk>>
    /\ UNCHANGED <<endScanHeight, txVars, codecVars, otherVars>>

Reentrant_after ==
    /\ fg.pc = "rn_after"
    /\ fg' = [fg EXCEPT !.pc = FunctionEnd]
    /\ UNCHANGED <<guardDepth, pauseRequested, syncPc, scanHeight, syncWrote, subWallets, disk>>
    /\ UNCHANGED <<endScanHeight, txVars, codecVars, otherVars>>

(* The caller takes the result.                                            *)
Lifecycle_return ==
    /\ fg.pc = "done"
    /\ fg' = IdleFg
    /\ UNCHANGED <<guardDepth, pauseRequested, syncPc, scanHeight, syncWrote, subWallets, disk>>
    /\ UNCHANGED <<endScanHeight, txVars, codecVars, otherVars>>

SyncStep == Sync_check \/ Sync_work \/ Sync_resume

FgStep ==
    \/ Guard_enter \/ Guard_wait \/ Guard_exit
    \/ UnsafeToJSON_subWallets
    \/ Save_unsafeSave
    \/ Rewind_sync \/ Rewind_subWallets \/ Rewind_save
    \/ Reset_sync \/ Reset_subWallets \/ Reset_save
    \/ AddSubWallet_add \/ DeleteSubWallet_delete
    \/ Reentrant_inner \/ Reentrant_after
    \/ Lifecycle_return

FgCall ==
    \/ Save_call
    \/ \E height \in Heights, timestamp \in Timestamps : Rewind_call(height, timestamp)
    \/ \E height \in Heights, timestamp \in Timestamps : Reset_call(height, timestamp)
    \/ AddSubWallet_call
    \/ \E address \in Addresses, valid \in BOOLEAN : DeleteSubWallet_call(address, valid)
    \/ Reentrant_call

(***************************************************************************)
(* The wallet file: saveWalletJSONToDisk and openWallet.                   *)
(***************************************************************************)
(* A char holds one of 256 values.                                         *)
ByteValues == 256

(* byte salt[16]                                                           *)
SaltSize == 16

(* The block size of the cipher (AES).                                     *)
BlockSize == 16

(* Constants::WALLET_FILE_FORMAT_VERSION                                   *)
WALLET_FILE_FORMAT_VERSION == 1

(* Constants::IS_A_WALLET_IDENTIFIER, IS_CORRECT_PASSWORD_IDENTIFIER       *)
IS_A_WALLET_IDENTIFIER == <<87, 65, 76>>

IS_CORRECT_PASSWORD_IDENTIFIER == <<80, 87, 68>>

Passwords == {11, 22}

(* Random::randomBytes(16, salt): one of two salts.                        *)
Salts == {[i \in 1..SaltSize |-> (s + i) % ByteValues] : s \in {3, 200}}

(* What a container persists: the registry and the checkpoint.             *)
Containers ==
    {[subWallets |-> [addresses |-> a, txs |-> x], scanHeight |-> h] :
       a \in (SUBSET Addresses) \ {{}}, x \in SUBSET (1..MaxHeight), h \in Heights}

(* The containers a save is made of: nothing found above the checkpoint.   *)
SavedContainers == {c \in Containers : \A h \in c.subWallets.txs : h <= c.scanHeight}

NoContainer == [subWallets |-> [addresses |-> {}, txs |-> {}], scanHeight |-> 0]

NoFile == [exists |-> FALSE, bytes |-> <<>>]

(* salt: the salt the save drew; repeat: the save before it wrote the same  *)
(* container under the same password and the file was left alone since;    *)
(* previous: the bytes that save had written.                              *)
NothingSaved ==
    [valid |-> FALSE, corrupted |-> FALSE, container |-> NoContainer,
     password |-> 0, error |-> "SUCCESS", salt |-> <<>>, repeat |-> FALSE,
     previous |-> <<>>]

(* daemon: m_daemon of the wallet object is set; started: init() started   *)
(* its synchronizer.                                                       *)
NothingOpened ==
    [tick |-> FALSE, password |-> 0, error |-> "SUCCESS", walletNull |-> TRUE,
     wallet |-> NoContainer, version |-> 0, steps |-> <<>>, decrypted |-> <<>>,
     parsed |-> <<>>, daemon |-> FALSE, started |-> FALSE]

(* No wallet file was written or opened yet.                               *)
CodecIdle ==
    /\ walletFile = NoFile
    /\ saved = NothingSaved
    /\ opened = NothingOpened

HasPrefix(data, identifier) ==
    /\ Len(data) >= Len(identifier)
    /\ SubSeq(data, 1, Len(identifier)) = identifier

Erase(data, n) == SubSeq(data, n + 1, Len(data))

(* The error, and the data with the identifier removed when it was there.  *)
hasMagicIdentifier(data, identifier, tooSmallError, wrongIdentifierError) ==
    IF Len(data) < Len(identifier)
    THEN [error |-> tooSmallError, data |-> data]
    ELSE IF ~HasPrefix(data, identifier)
    THEN [error |-> wrongIdentifierError, data |-> data]
    ELSE [error |-> "SUCCESS", data |-> Erase(data, Len(identifier))]

(* ---- the cipher ---------------------------------------------------------- *)
RECURSIVE SeqSum(_)
SeqSum(q) == IF q = <<>> THEN 0 ELSE Head(q) + SeqSum(Tail(q))

(* pbkdf2.DeriveKey(key, ..., password, ..., salt, ...): the key depends   *)
(* on the password and on the salt.                                        *)
DeriveKey(password, salt) == (password + SeqSum(salt)) % ByteValues

(* The key stream byte at position i, from the key and the iv.             *)
KeyStream(key, iv, i) == key + iv[((i - 1) % Len(iv)) + 1]

(* PKCS padding: 1..BlockSize bytes, each holding their number.            *)
Pad(data) ==
    LET n == BlockSize - (Len(data) % BlockSize)
    IN data \o [i \in 1..n |-> n]

(* CBC_Mode<AES>::Encryption under StreamTransformationFilter: pad, then   *)
(* encipher; the same key and iv decipher it again.                        *)
Encrypt(key, iv, data) ==
    LET padded == Pad(data)
    IN [i \in 1..Len(padded) |-> (padded[i] + KeyStream(key, iv, i)) % ByteValues]

(* CBC_Mode<AES>::Decryption under StreamTransformationFilter: throws on a *)
(* length that is no multiple of the block size and on invalid padding;    *)
(* else the deciphered data without the padding.                           *)
Decrypt(key, iv, data) ==
    IF Len(data) = 0 \/ Len(data) % BlockSize # 0
    THEN [threw |-> TRUE, data |-> <<>>]
    ELSE LET raw == [i \in 1..Len(data) |->
                       (data[i] + 2 * ByteValues - KeyStream(key, iv, i)) % ByteValues]
             n == raw[Len(raw)]
         IN IF n < 1 \/ n > BlockSize
               \/ \E i \in (Len(raw) - n + 1)..Len(raw) : raw[i] # n
            THEN [threw |-> TRUE, data |-> <<>>]
            ELSE [threw |-> FALSE, data |-> SubSeq(raw, 1, Len(raw) - n)]

(* ---- the JSON document --------------------------------------------------- *)
(* The characters of the document: braces, one letter per key, and numbers *)
(* written from the character 0 on.                                        *)
JsonChar ==
    [open |-> 123, close |-> 125, walletFileFormatVersion |-> 118,
     subWallets |-> 115, walletSynchronizer |-> 121, zero |-> 48]

RECURSIVE SetToMask(_)
SetToMask(S) ==
    IF S = {} THEN 0
    ELSE LET x == CHOOSE y \in S : TRUE IN 2^x + SetToMask(S \ {x})

MaskToSet(m, universe) == {i \in universe : (m \div 2^i) % 2 = 1}

(* writer.Uint / the number at a position of the text                      *)
WriteUint(n) == JsonChar.zero + n

ReadUint(text, pos) == text[pos] - JsonChar.zero

(* SubWallets::toJSON / fromJSON                                           *)
SubWalletsToJSON(sw) ==
    <<WriteUint(SetToMask(sw.addresses)), WriteUint(SetToMask(sw.txs))>>

SubWalletsFromJSON(text, pos) ==
    [addresses |-> MaskToSet(ReadUint(text, pos), Addresses),
     txs |-> MaskToSet(ReadUint(text, pos + 1), 1..MaxHeight)]

(* WalletSynchronizer::toJSON / fromJSON                                   *)
SynchronizerToJSON(height) == <<WriteUint(height)>>

SynchronizerFromJSON(text, pos) == ReadUint(text, pos)

unsafeToJSON_WithPrepared(container) ==
    <<JsonChar.open, JsonChar.walletFileFormatVersion,
      WriteUint(WALLET_FILE_FORMAT_VERSION), JsonChar.subWallets>>
      \o SubWalletsToJSON(container.subWallets)
      \o <<JsonChar.walletSynchronizer>>
      \o SynchronizerToJSON(container.scanHeight)
      \o <<112, WriteUint(SetToMask(DOMAIN container.preparedTransactions))>>
      \o <<JsonChar.close>>

unsafeToJSON_NoSynchronizer(container) ==
    <<JsonChar.open, JsonChar.walletFileFormatVersion,
      WriteUint(WALLET_FILE_FORMAT_VERSION), JsonChar.subWallets>>
      \o SubWalletsToJSON(container.subWallets)
      \o <<JsonChar.walletSynchronizer>>
      \o SynchronizerToJSON(0)
      \o <<JsonChar.close>>

(* walletFileFormatVersion, subWallets, walletSynchronizer                 *)
unsafeToJSON(container) ==
    <<JsonChar.open, JsonChar.walletFileFormatVersion,
      WriteUint(WALLET_FILE_FORMAT_VERSION), JsonChar.subWallets>>
      \o SubWalletsToJSON(container.subWallets)
      \o <<JsonChar.walletSynchronizer>>
      \o SynchronizerToJSON(container.scanHeight)
      \o <<JsonChar.close>>

(* decryptedData.c_str(): the text ends at the first zero byte.            *)
RECURSIVE CStr(_)
CStr(data) ==
    IF data = <<>> \/ Head(data) = 0 THEN <<>>
    ELSE <<Head(data)>> \o CStr(Tail(data))

(* walletJson.Parse(...).HasParseError()                                   *)
HasParseError(text) ==
    \/ Len(text) < 2
    \/ text[1] # JsonChar.open
    \/ text[Len(text)] # JsonChar.close

(* getUint64FromJSON / getObjectFromJSON throw std::invalid_argument when  *)
(* the member is not there.                                                *)
HasMember(text, key, pos, size) ==
    /\ Len(text) >= pos + size + 1
    /\ text[pos] = key
    /\ \A i \in (pos + 1)..(pos + size) : text[i] >= JsonChar.zero

(* fromJSON(j): the version is checked before anything is loaded.          *)
fromJSON(text) ==
    IF ~HasMember(text, JsonChar.walletFileFormatVersion, 2, 1)
    THEN [threw |-> TRUE, error |-> "SUCCESS", version |-> 0, wallet |-> NoContainer]
    ELSE IF ReadUint(text, 3) # WALLET_FILE_FORMAT_VERSION
    THEN [threw |-> FALSE, error |-> "UNSUPPORTED_WALLET_FILE_FORMAT_VERSION",
          version |-> ReadUint(text, 3), wallet |-> NoContainer]
    ELSE IF ~HasMember(text, JsonChar.subWallets, 4, 2)
            \/ ~HasMember(text, JsonChar.walletSynchronizer, 7, 1)
    THEN [threw |-> TRUE, error |-> "SUCCESS", version |-> 0, wallet |-> NoContainer]
    ELSE [threw |-> FALSE, error |-> "SUCCESS", version |-> ReadUint(text, 3),
          wallet |-> [subWallets |-> SubWalletsFromJSON(text, 5),
                      scanHeight |-> SynchronizerFromJSON(text, 8)]]

fromJSONAndInit_DaemonFirst(text) ==
    LET loaded == fromJSON(text)
    IN [threw |-> loaded.threw, error |-> loaded.error, version |-> loaded.version,
        wallet |-> loaded.wallet,
        daemon |-> ~loaded.threw,
        started |-> ~loaded.threw /\ loaded.error = "SUCCESS"]

(* fromJSON(j, filename, password, daemonHost, ...): when fromJSON(j)      *)
(* reports an error it is returned at once; else m_daemon is set and       *)
(* init() starts the synchronizer.                                         *)
fromJSONAndInit(text) ==
    LET loaded == fromJSON(text)
    IN [threw |-> loaded.threw, error |-> loaded.error, version |-> loaded.version,
        wallet |-> loaded.wallet,
        daemon |-> ~loaded.threw /\ loaded.error = "SUCCESS",
        started |-> ~loaded.threw /\ loaded.error = "SUCCESS"]

(* ---- saveWalletJSONToDisk ------------------------------------------------ *)
(* std::string walletData = identiferAsString + walletJSON;                *)
WalletData(walletJSON) == IS_CORRECT_PASSWORD_IDENTIFIER \o walletJSON

WalletFileBytes_SaltNotWritten(walletJSON, password, salt) ==
    IS_A_WALLET_IDENTIFIER
      \o Encrypt(DeriveKey(password, salt), salt, WalletData(walletJSON))

(* The bytes written: the identifier, the salt in clear, the encrypted     *)
(* wallet data.                                                            *)
WalletFileBytes(walletJSON, password, salt) ==
    IS_A_WALLET_IDENTIFIER \o salt
      \o Encrypt(DeriveKey(password, salt), salt, WalletData(walletJSON))

(* std::ofstream file(filename, std::ios_base::binary): when it opens, the *)
(* identifier, the salt and the encrypted data replace what the file held; *)
(* when it does not, INVALID_WALLET_FILENAME is returned.                  *)
WriteWalletFile(container, password, salt, fileOpens) ==
    IF fileOpens
    THEN /\ walletFile' = [exists |-> TRUE,
                           bytes |-> WalletFileBytes(unsafeToJSON(container),
                                                     password, salt)]
         /\ LET repeat == /\ saved.valid
                           /\ ~saved.corrupted
                           /\ saved.container = container
                           /\ saved.password = password
            IN saved' = [valid |-> TRUE, corrupted |-> FALSE,
                         container |-> container, password |-> password,
                         error |-> "SUCCESS", salt |-> salt, repeat |-> repeat,
                         previous |-> IF repeat THEN walletFile.bytes ELSE <<>>]
    ELSE /\ UNCHANGED walletFile
         /\ saved' = [saved EXCEPT !.error = "INVALID_WALLET_FILENAME"]

SaveError(fileOpens) == IF fileOpens THEN "SUCCESS" ELSE "INVALID_WALLET_FILENAME"

(* unsafeSave: saveWalletJSONToDisk(unsafeToJSON(), m_filename, m_password) *)
SaveWalletJSONToDisk(container, password, salt, fileOpens) ==
    /\ ~opened.tick
    /\ WriteWalletFile(container, password, salt, fileOpens)
    /\ UNCHANGED opened
    /\ UNCHANGED <<txVars, guardVars, otherVars>>

(* ---- openWallet ---------------------------------------------------------- *)
OnDecryptException_Corrupted == "WALLET_FILE_CORRUPTED"

(* catch (const CryptoPP::Exception &) { return {WRONG_PASSWORD, nullptr}; } *)
OnDecryptException == "WRONG_PASSWORD"

PasswordCheck_Collapsed(decryptedData) ==
    hasMagicIdentifier(decryptedData, IS_CORRECT_PASSWORD_IDENTIFIER,
                       "WRONG_PASSWORD", "WRONG_PASSWORD")

(* error = hasMagicIdentifier(decryptedData, IS_CORRECT_PASSWORD_IDENTIFIER, *)
(*                            WALLET_FILE_CORRUPTED, WRONG_PASSWORD);      *)
PasswordCheck(decryptedData) ==
    hasMagicIdentifier(decryptedData, IS_CORRECT_PASSWORD_IDENTIFIER,
                       "WALLET_FILE_CORRUPTED", "WRONG_PASSWORD")

(* What openWallet returns, with the steps it ran, the decrypted data and  *)
(* the text it parsed.                                                     *)
OpenResult(password, error, walletNull, loaded, steps, decrypted, parsed) ==
    [tick |-> TRUE, password |-> password, error |-> error,
     walletNull |-> walletNull, wallet |-> loaded.wallet, version |-> loaded.version,
     steps |-> steps, decrypted |-> decrypted, parsed |-> parsed,
     daemon |-> loaded.daemon, started |-> loaded.started]

NotLoaded == [wallet |-> NoContainer, version |-> 0, daemon |-> FALSE, started |-> FALSE]

OpenWallet(file, password) ==
    IF ~file.exists
    THEN OpenResult(password, "FILENAME_NON_EXISTENT", TRUE, NotLoaded,
                    <<"open">>, <<>>, <<>>)
    ELSE
    LET magic == hasMagicIdentifier(file.bytes, IS_A_WALLET_IDENTIFIER,
                                    "NOT_A_WALLET_FILE", "NOT_A_WALLET_FILE")
    IN
    IF magic.error # "SUCCESS"
    THEN OpenResult(password, magic.error, TRUE, NotLoaded,
                    <<"open", "magic">>, <<>>, <<>>)
    ELSE IF Len(magic.data) < SaltSize
    THEN OpenResult(password, "WALLET_FILE_CORRUPTED", TRUE, NotLoaded,
                    <<"open", "magic", "salt">>, <<>>, <<>>)
    ELSE
    LET salt == SubSeq(magic.data, 1, SaltSize)
        buffer == Erase(magic.data, SaltSize)
        plain == Decrypt(DeriveKey(password, salt), salt, buffer)
    IN
    IF plain.threw
    THEN OpenResult(password, OnDecryptException, TRUE, NotLoaded,
                    <<"open", "magic", "salt", "decrypt">>, <<>>, <<>>)
    ELSE
    LET check == PasswordCheck(plain.data)
    IN
    IF check.error # "SUCCESS"
    THEN OpenResult(password, check.error, TRUE, NotLoaded,
                    <<"open", "magic", "salt", "decrypt", "password">>,
                    plain.data, <<>>)
    ELSE
    LET text == CStr(check.data)
    IN
    IF HasParseError(text)
    THEN OpenResult(password, "WALLET_FILE_CORRUPTED", TRUE, NotLoaded,
                    <<"open", "magic", "salt", "decrypt", "password", "parse">>,
                    plain.data, text)
    ELSE
    LET loaded == fromJSONAndInit(text)
    IN
    IF loaded.threw
    THEN OpenResult(password, "WALLET_FILE_CORRUPTED", TRUE, NotLoaded,
                    <<"open", "magic", "salt", "decrypt", "password", "parse",
                      "fromJSON">>, plain.data, text)
    ELSE OpenResult(password, loaded.error, FALSE, loaded,
                    <<"open", "magic", "salt", "decrypt", "password", "parse",
                      "fromJSON">>, plain.data, text)

(* std::ifstream file(filename): the file is there and can be read.        *)
Ifstream(file, mode) == [exists |-> file.exists /\ mode.readable, bytes |-> file.bytes]

Open_wallet(password) ==
    /\ ~opened.tick
    /\ opened' = OpenWallet(Ifstream(walletFile, fileMode), password)
    /\ UNCHANGED <<walletFile, saved>>
    /\ UNCHANGED <<txVars, guardVars, otherVars>>

(* The caller takes the result.                                            *)
Open_return ==
    /\ opened.tick
    /\ opened' = NothingOpened
    /\ UNCHANGED <<walletFile, saved>>
    /\ UNCHANGED <<txVars, guardVars, otherVars>>

(* ---- what else happens to the file --------------------------------------- *)
(* Wallet data a file can hold in place of identifier and document.        *)
OtherWalletData ==
    {<<>>, <<80>>, <<80, 87, 67, 123, 125>>,
     IS_CORRECT_PASSWORD_IDENTIFIER,
     IS_CORRECT_PASSWORD_IDENTIFIER \o <<123, 118>>,
     IS_CORRECT_PASSWORD_IDENTIFIER \o <<123, 125>>,
     IS_CORRECT_PASSWORD_IDENTIFIER
       \o <<123, 118, JsonChar.zero + WALLET_FILE_FORMAT_VERSION + 1, 125>>,
     IS_CORRECT_PASSWORD_IDENTIFIER
       \o <<123, 118, JsonChar.zero + WALLET_FILE_FORMAT_VERSION, 125>>}

(* Corrupt ciphertexts: empty, cut short, a block of zeros, and a block    *)
(* that happens to decipher, under one of the passwords, to valid padding  *)
(* after no data or after one byte.                                        *)
CorruptCiphertexts(salt) ==
    {<<>>, <<1, 2, 3>>, [i \in 1..BlockSize |-> 0]}
      \cup {Encrypt(DeriveKey(p, salt), salt, d) : p \in Passwords, d \in {<<>>, <<80>>}}

(* Ciphertexts that did not come out of a save.                            *)
OtherCiphertexts(salt) ==
    CorruptCiphertexts(salt)
      \cup {Encrypt(DeriveKey(p, salt), salt, d) : p \in Passwords, d \in OtherWalletData}

(* The salt of a file that save wrote.                                     *)
SaltOf(file) ==
    IF Len(file.bytes) >= Len(IS_A_WALLET_IDENTIFIER) + SaltSize
    THEN SubSeq(file.bytes, Len(IS_A_WALLET_IDENTIFIER) + 1,
                Len(IS_A_WALLET_IDENTIFIER) + SaltSize)
    ELSE [i \in 1..SaltSize |-> 0]

(* The ciphertext of the saved file is replaced.                           *)
File_corrupt(ciphertext) ==
    /\ ~opened.tick
    /\ walletFile.exists
    /\ saved.valid
    /\ walletFile' = [walletFile EXCEPT !.bytes =
                        SubSeq(@, 1, Len(IS_A_WALLET_IDENTIFIER) + SaltSize) \o ciphertext]
    /\ saved' = [saved EXCEPT !.corrupted = TRUE]
    /\ UNCHANGED opened
    /\ UNCHANGED <<txVars, guardVars, otherVars>>

(* Some other file is found under the name.                                *)
OtherFiles ==
    {<<>>, <<87, 65>>, <<87, 65, 77>>, <<87, 65, 77>> \o [i \in 1..SaltSize |-> 7],
     IS_A_WALLET_IDENTIFIER,
     IS_A_WALLET_IDENTIFIER \o [i \in 1..(SaltSize - 1) |-> 7]}
      \cup UNION {{IS_A_WALLET_IDENTIFIER \o salt \o c : c \in OtherCiphertexts(salt)} :
                     salt \in Salts}

File_place(bytes) ==
    /\ ~opened.tick
    /\ walletFile' = [exists |-> TRUE, bytes |-> bytes]
    /\ saved' = NothingSaved
    /\ UNCHANGED opened
    /\ UNCHANGED <<txVars, guardVars, otherVars>>

File_remove ==
    /\ ~opened.tick
    /\ walletFile.exists
    /\ walletFile' = NoFile
    /\ saved' = NothingSaved
    /\ UNCHANGED opened
    /\ UNCHANGED <<txVars, guardVars, otherVars>>

CodecNext ==
    \/ \E container \in SavedContainers, password \in Passwords, salt \in Salts,
          fileOpens \in BOOLEAN :
         SaveWalletJSONToDisk(container, password, salt, fileOpens)
    \/ \E password \in Passwords : Open_wallet(password)
    \/ Open_return
    \/ \E ciphertext \in CorruptCiphertexts(SaltOf(walletFile)) : File_corrupt(ciphertext)
    \/ \E bytes \in OtherFiles : File_place(bytes)
    \/ File_remove

(* The steps and the calls of scanRange and of the three imports.          *)
ImportStep ==
    \/ ScanRange_sync \/ ScanRange_subWallets \/ ScanRange_setEndScanHeight
    \/ ScanRange_save
    \/ Import_import \/ Import_height \/ Import_sync
    \/ ImportSubWallet_subWallets \/ ImportSubWalletIndex_subWallets
    \/ ImportViewSubWallet_subWallets

ImportCall ==
    \/ \E height \in Heights, endHeight \in Heights : ScanRange_call(height, endHeight)
    \/ \E address \in Addresses, height \in Heights, valid \in BOOLEAN :
         ImportSubWallet_call(address, height, valid)
    \/ \E address \in Addresses, height \in Heights :
         ImportSubWalletIndex_call(address, height)
    \/ \E address \in Addresses, height \in Heights, valid \in BOOLEAN :
         ImportViewSubWallet_call(address, height, valid)

(* ---- changePassword / swapNode ------------------------------------------ *)
(* if (m_password == newPassword) return SUCCESS;                          *)
(* m_password = newPassword; return save();                                *)
ChangePassword_call(same) ==
    /\ fg.pc = "idle"
    /\ fg' = IF same
             THEN [IdleFg EXCEPT !.pc = "done", !.op = "changePassword"]
             ELSE [IdleFg EXCEPT !.pc = "g_enter", !.op = "changePassword"]
    /\ UNCHANGED <<guardDepth, pauseRequested, syncPc, scanHeight, syncWrote, subWallets, disk>>
    /\ UNCHANGED <<endScanHeight, txVars, codecVars, otherVars>>

SwapNode_call ==
    /\ fg.pc = "idle"
    /\ fg' = [IdleFg EXCEPT !.pc = "g_enter", !.op = "swapNode"]
    /\ UNCHANGED <<guardDepth, pauseRequested, syncPc, scanHeight, syncWrote, subWallets, disk>>
    /\ UNCHANGED <<endScanHeight, txVars, codecVars, otherVars>>

SwapNode_swap_DropsPrepared ==
    /\ fg.pc = "sn_swap"
    /\ fg' = [fg EXCEPT !.pc = FunctionEnd]
    /\ m_preparedTransactions' = [k \in {} |-> NoPrepared]
    /\ UNCHANGED <<m_transactionMutex, pc, call, lastRet, sentOK>>
    /\ UNCHANGED <<guardDepth, pauseRequested, syncPc, scanHeight, syncWrote, subWallets, disk>>
    /\ UNCHANGED <<endScanHeight, codecVars, otherVars>>

(* m_daemon->swapNode(...); m_walletSynchronizer->swapNode(m_daemon);      *)
(* return 0;                                                               *)
SwapNode_swap ==
    /\ fg.pc = "sn_swap"
    /\ fg' = [fg EXCEPT !.pc = FunctionEnd]
    /\ UNCHANGED <<guardDepth, pauseRequested, syncPc, scanHeight, syncWrote, subWallets, disk>>
    /\ UNCHANGED <<endScanHeight, txVars, codecVars, otherVars>>

(* ---- the lifecycle operations on a wallet that holds prepared            *)
(* transactions ------------------------------------------------------------ *)
FrameCall ==
    \/ Save_call
    \/ \E same \in BOOLEAN : ChangePassword_call(same)
    \/ SwapNode_call
    \/ \E timestamp \in {0, 2} : Rewind_call(1, timestamp)
    \/ Reset_call(1, 0)
    \/ ScanRange_call(1, 2)
    \/ AddSubWallet_call
    \/ DeleteSubWallet_call(2, TRUE)
    \/ ImportSubWallet_call(2, 1, TRUE)
    \/ ImportSubWalletIndex_call(2, 1)
    \/ ImportViewSubWallet_call(2, 1, TRUE)

FrameStep ==
    \/ Guard_enter \/ Guard_wait \/ Guard_exit
    \/ UnsafeToJSON_subWallets
    \/ Save_unsafeSave
    \/ SwapNode_swap
    \/ Rewind_sync \/ Rewind_subWallets \/ Rewind_save
    \/ Reset_sync \/ Reset_subWallets \/ Reset_save
    \/ AddSubWallet_add \/ DeleteSubWallet_delete
    \/ Lifecycle_return

FrameNext == SyncStep \/ FrameCall \/ FrameStep \/ ImportStep

(***************************************************************************)
(* The key material: getSpendKeys and getMnemonicSeedForAddress.           *)
(***************************************************************************)
(* Crypto::SecretKey(): the key of all zeros; a view-only sub-wallet has   *)
(* it in place of a private spend key.                                     *)
NullKey == 0

PrivateKeys == {1, 2, 3}

(* The public key of a private key.                                        *)
secretKeyToPublicKey(privateKey) == privateKey + 10

PublicKeys == {secretKeyToPublicKey(k) : k \in PrivateKeys}

(* Crypto::crypto_ops::generateViewFromSpend: a function of the spend key. *)
generateViewFromSpend(privateSpendKey) == (privateSpendKey % 3) + 1

(* A well-formed address carries a public spend key; address 0 is not      *)
(* well formed.                                                            *)
MalformedAddress == 0

publicKeysToAddress(publicSpendKey) == publicSpendKey + 100

KeyAddresses == {publicKeysToAddress(k) : k \in PublicKeys}

(* Utilities::addressToKeys                                                *)
addressToKeys(address) == address - 100

(* validateAddresses({address}, allowIntegratedAddresses)                  *)
validateAddresses(address) ==
    IF address \in KeyAddresses THEN "SUCCESS" ELSE "ADDRESS_NOT_VALID"

(* Mnemonics::PrivateKeyToMnemonic; std::string() is no seed.              *)
PrivateKeyToMnemonic(privateSpendKey) == 1000 + 7 * privateSpendKey

NoSeed == 0

(* SubWallets::getPrivateSpendKey: the key and the index of the sub-wallet *)
(* with this public spend key, or an error and no key.                     *)
getPrivateSpendKey(k, publicSpendKey) ==
    IF publicSpendKey \in DOMAIN k.subWallets
    THEN [error |-> "SUCCESS", privateSpendKey |-> k.subWallets[publicSpendKey],
          walletIndex |-> Cardinality({q \in DOMAIN k.subWallets : q < publicSpendKey})]
    ELSE [error |-> "ADDRESS_NOT_IN_WALLET", privateSpendKey |-> NullKey,
          walletIndex |-> 0]

(* The container of a wallet: the shared private view key, and the private *)
(* spend key of every sub-wallet under its public spend key.               *)
KeysOf(privateViewKey, publicSpendKey, privateSpendKey) ==
    [privateViewKey |-> privateViewKey,
     subWallets |-> [q \in {publicSpendKey} |-> privateSpendKey]]

NoKeyRet ==
    [tick |-> FALSE, op |-> "none", address |-> MalformedAddress, error |-> "SUCCESS",
     publicSpendKey |-> NullKey, privateSpendKey |-> NullKey, walletIndex |-> 0,
     seed |-> NoSeed]

(* A wallet made by createWallet: its view key is derived from its spend   *)
(* key.                                                                    *)
KeysInit ==
    /\ keys = KeysOf(generateViewFromSpend(1), secretKeyToPublicKey(1), 1)
    /\ keyRet = NoKeyRet

getSpendKeys(k, address) ==
    IF validateAddresses(address) # "SUCCESS"
    THEN [error |-> validateAddresses(address), publicSpendKey |-> NullKey,
          privateSpendKey |-> NullKey, walletIndex |-> 0]
    ELSE LET publicSpendKey == addressToKeys(address)
             found == getPrivateSpendKey(k, publicSpendKey)
         IN [error |-> found.error, publicSpendKey |-> publicSpendKey,
             privateSpendKey |-> found.privateSpendKey,
             walletIndex |-> found.walletIndex]

getMnemonicSeedForAddress_NoCompare(k, address) ==
    IF validateAddresses(address) # "SUCCESS"
    THEN [error |-> validateAddresses(address), seed |-> NoSeed]
    ELSE LET spend == getSpendKeys(k, address)
         IN IF spend.error # "SUCCESS"
            THEN [error |-> spend.error, seed |-> NoSeed]
            ELSE [error |-> "SUCCESS", seed |-> PrivateKeyToMnemonic(spend.privateSpendKey)]

getMnemonicSeedForAddress_IgnoresError(k, address) ==
    IF validateAddresses(address) # "SUCCESS"
    THEN [error |-> validateAddresses(address), seed |-> NoSeed]
    ELSE LET privateViewKey == k.privateViewKey
             spend == getSpendKeys(k, address)
         IN IF generateViewFromSpend(spend.privateSpendKey) # privateViewKey
            THEN [error |-> "KEYS_NOT_DETERMINISTIC", seed |-> NoSeed]
            ELSE [error |-> "SUCCESS", seed |-> PrivateKeyToMnemonic(spend.privateSpendKey)]

getMnemonicSeedForAddress(k, address) ==
    IF validateAddresses(address) # "SUCCESS"
    THEN [error |-> validateAddresses(address), seed |-> NoSeed]
    ELSE LET privateViewKey == k.privateViewKey
             spend == getSpendKeys(k, address)
         IN IF spend.error # "SUCCESS"
            THEN [error |-> spend.error, seed |-> NoSeed]
            ELSE IF generateViewFromSpend(spend.privateSpendKey) # privateViewKey
            THEN [error |-> "KEYS_NOT_DETERMINISTIC", seed |-> NoSeed]
            ELSE [error |-> "SUCCESS", seed |-> PrivateKeyToMnemonic(spend.privateSpendKey)]

GetSpendKeys(address) ==
    /\ ~keyRet.tick
    /\ LET r == getSpendKeys(keys, address)
       IN keyRet' = [tick |-> TRUE, op |-> "getSpendKeys", address |-> address,
                     error |-> r.error, publicSpendKey |-> r.publicSpendKey,
                     privateSpendKey |-> r.privateSpendKey,
                     walletIndex |-> r.walletIndex, seed |-> NoSeed]
    /\ UNCHANGED <<keys, transactions, rangeRet, objVars>>
    /\ UNCHANGED <<txVars, guardVars, codecVars>>

GetMnemonicSeedForAddress(address) ==
    /\ ~keyRet.tick
    /\ LET r == getMnemonicSeedForAddress(keys, address)
       IN keyRet' = [tick |-> TRUE, op |-> "getMnemonicSeedForAddress",
                     address |-> address, error |-> r.error,
                     publicSpendKey |-> NullKey, privateSpendKey |-> NullKey,
                     walletIndex |-> 0, seed |-> r.seed]
    /\ UNCHANGED <<keys, transactions, rangeRet, objVars>>
    /\ UNCHANGED <<txVars, guardVars, codecVars>>

(* The caller takes the result.                                            *)
Keys_return ==
    /\ keyRet.tick
    /\ keyRet' = NoKeyRet
    /\ UNCHANGED <<keys, transactions, rangeRet, objVars>>
    /\ UNCHANGED <<txVars, guardVars, codecVars>>

(* The standard constructor, as importWalletFromKeys calls it: any spend   *)
(* key with any view key.                                                  *)
Keys_importWalletFromKeys(privateSpendKey, privateViewKey) ==
    /\ ~keyRet.tick
    /\ keys' = KeysOf(privateViewKey, secretKeyToPublicKey(privateSpendKey),
                      privateSpendKey)
    /\ UNCHANGED <<keyRet, transactions, rangeRet, objVars>>
    /\ UNCHANGED <<txVars, guardVars, codecVars>>

(* The view wallet constructor: the sub-wallet of the address, without a   *)
(* private spend key.                                                      *)
Keys_importViewWallet(privateViewKey, address) ==
    /\ ~keyRet.tick
    /\ keys' = KeysOf(privateViewKey, addressToKeys(address), NullKey)
    /\ UNCHANGED <<keyRet, transactions, rangeRet, objVars>>
    /\ UNCHANGED <<txVars, guardVars, codecVars>>

(* SubWallets::importSubWallet / addSubWallet: one more sub-wallet, with   *)
(* its own private spend key.                                              *)
Keys_importSubWallet(privateSpendKey) ==
    /\ ~keyRet.tick
    /\ secretKeyToPublicKey(privateSpendKey) \notin DOMAIN keys.subWallets
    /\ keys' = [keys EXCEPT !.subWallets =
                  MapAssign(@, secretKeyToPublicKey(privateSpendKey), privateSpendKey)]
    /\ UNCHANGED <<keyRet, transactions, rangeRet, objVars>>
    /\ UNCHANGED <<txVars, guardVars, codecVars>>

KeysNext ==
    \/ \E address \in KeyAddresses \cup {MalformedAddress} : GetSpendKeys(address)
    \/ \E address \in KeyAddresses \cup {MalformedAddress} :
         GetMnemonicSeedForAddress(address)
    \/ Keys_return
    \/ \E privateSpendKey \in PrivateKeys, privateViewKey \in PrivateKeys \cup {NullKey} :
         Keys_importWalletFromKeys(privateSpendKey, privateViewKey)
    \/ \E privateViewKey \in PrivateKeys \cup {NullKey}, address \in KeyAddresses :
         Keys_importViewWallet(privateViewKey, address)
    \/ \E privateSpendKey \in PrivateKeys : Keys_importSubWallet(privateSpendKey)

(***************************************************************************)
(* The construction paths and the destructor.                              *)
(***************************************************************************)
NewWalletOps ==
    {"createWallet", "importWalletFromSeed", "importWalletFromKeys", "importViewWallet"}

(* m_preparedTransactions of a wallet object that was just constructed.    *)
NoPreparedTransactions == [k \in {} |-> NoPrepared]

(* atCall: what was at the path when the call was made.                    *)
NothingMade ==
    [pc |-> "idle", op |-> "none", password |-> 0, scanHeight |-> 0,
     error |-> "SUCCESS", walletNull |-> TRUE, daemon |-> FALSE, started |-> FALSE,
     wallet |-> NoContainer, prepared |-> NoPreparedTransactions, parsed |-> <<>>,
     atCall |-> [exists |-> FALSE, readable |-> TRUE, writable |-> TRUE]]

ObjectInit ==
    /\ fileMode = [readable |-> TRUE, writable |-> TRUE]
    /\ made = NothingMade

checkNewWalletFilename_LeavesProbe(file, mode) ==
    IF Ifstream(file, mode).exists
    THEN [error |-> "WALLET_FILE_ALREADY_EXISTS", file |-> file]
    ELSE IF ~mode.writable
    THEN [error |-> "INVALID_WALLET_FILENAME", file |-> file]
    ELSE [error |-> "SUCCESS", file |-> [exists |-> TRUE, bytes |-> <<>>]]

(* if (std::ifstream(filename)) return WALLET_FILE_ALREADY_EXISTS;         *)
(* if (!std::ofstream(filename)) return INVALID_WALLET_FILENAME;           *)
(* fs::remove(filename);                                                   *)
(* The ifstream opens a file that is there and can be read; the ofstream   *)
(* creates or truncates the file when the path can be written.             *)
checkNewWalletFilename(file, mode) ==
    IF Ifstream(file, mode).exists
    THEN [error |-> "WALLET_FILE_ALREADY_EXISTS", file |-> file]
    ELSE IF ~mode.writable
    THEN [error |-> "INVALID_WALLET_FILENAME", file |-> file]
    ELSE [error |-> "SUCCESS", file |-> NoFile]

(* Mnemonics::MnemonicToPrivateKey                                         *)
MnemonicToPrivateKey(mnemonicSeed) ==
    IF \E k \in PrivateKeys : PrivateKeyToMnemonic(k) = mnemonicSeed
    THEN [error |-> "SUCCESS",
          key |-> CHOOSE k \in PrivateKeys : PrivateKeyToMnemonic(k) = mnemonicSeed]
    ELSE [error |-> "INVALID_MNEMONIC", key |-> NullKey]

(* validatePrivateKey                                                      *)
validatePrivateKey(key) ==
    IF key \in PrivateKeys THEN "SUCCESS" ELSE "INVALID_PRIVATE_KEY"

(* The first error of a sequence of checks.                                *)
RECURSIVE FirstError(_)
FirstError(errors) ==
    IF errors = <<>> THEN "SUCCESS"
    ELSE IF Head(errors) # "SUCCESS" THEN Head(errors)
    ELSE FirstError(Tail(errors))

(* The checks each of the four functions makes before it constructs the    *)
(* wallet: the filename first, then what it was given.                     *)
NewWallet_call(op, password, height, checks) ==
    /\ made.pc = "idle"
    /\ LET check == checkNewWalletFilename(walletFile, fileMode)
           error == FirstError(<<check.error>> \o checks)
       IN /\ walletFile' = check.file
          /\ saved' = IF check.file = walletFile THEN saved ELSE NothingSaved
          /\ made' = [NothingMade EXCEPT
                        !.pc = IF error = "SUCCESS" THEN "construct" ELSE "returned",
                        !.op = op, !.password = password, !.scanHeight = height,
                        !.error = error,
                        !.atCall = [exists |-> walletFile.exists,
                                    readable |-> fileMode.readable,
                                    writable |-> fileMode.writable]]
    /\ UNCHANGED <<opened, fileMode, queryVars>>
    /\ UNCHANGED <<txVars, guardVars>>

CreateWallet_call(password) ==
    NewWallet_call("createWallet", password, 0, <<>>)

ImportWalletFromSeed_call(mnemonicSeed, password, height) ==
    LET decoded == MnemonicToPrivateKey(mnemonicSeed)
    IN NewWallet_call("importWalletFromSeed", password, height,
                      <<decoded.error,
                        validatePrivateKey(generateViewFromSpend(decoded.key))>>)

ImportWalletFromKeys_call(privateSpendKey, privateViewKey, password, height) ==
    NewWallet_call("importWalletFromKeys", password, height,
                   <<validatePrivateKey(privateViewKey),
                     validatePrivateKey(privateSpendKey)>>)

ImportViewWallet_call(privateViewKey, address, password, height) ==
    NewWallet_call("importViewWallet", password, height,
                   <<validatePrivateKey(privateViewKey), validateAddresses(address)>>)

(* new WalletBackend(...); wallet->init(); Error error = wallet->save();   *)
(* return {error, wallet};                                                 *)
NewWallet_construct ==
    /\ made.pc = "construct"
    /\ LET container == [subWallets |-> [addresses |-> {1}, txs |-> {}],
                         scanHeight |-> made.scanHeight]
       IN /\ \E salt \in Salts :
               WriteWalletFile(container, made.password, salt, fileMode.writable)
          /\ made' = [made EXCEPT !.pc = "returned",
                                  !.error = SaveError(fileMode.writable),
                                  !.walletNull = FALSE, !.daemon = TRUE,
                                  !.started = TRUE, !.wallet = container]
    /\ UNCHANGED <<opened, fileMode, queryVars>>
    /\ UNCHANGED <<txVars, guardVars>>

(* openWallet, with the wallet object it made.                             *)
OpenWallet_call(password) ==
    /\ made.pc = "idle"
    /\ LET r == OpenWallet(Ifstream(walletFile, fileMode), password)
       IN made' = [NothingMade EXCEPT
                     !.pc = "returned", !.op = "openWallet", !.password = password,
                     !.error = r.error, !.walletNull = r.walletNull,
                     !.daemon = r.daemon, !.started = r.started,
                     !.wallet = r.wallet, !.parsed = r.parsed,
                     !.atCall = [exists |-> walletFile.exists,
                                 readable |-> fileMode.readable,
                                 writable |-> fileMode.writable]]
    /\ UNCHANGED <<walletFile, saved, opened, fileMode, queryVars>>
    /\ UNCHANGED <<txVars, guardVars>>

(* The caller takes an error that came without a wallet.                   *)
Construct_return ==
    /\ made.pc = "returned"
    /\ made.walletNull
    /\ made' = NothingMade
    /\ UNCHANGED <<walletFile, saved, opened, fileMode, queryVars>>
    /\ UNCHANGED <<txVars, guardVars>>

(* ~WalletBackend: if (m_daemon != nullptr) save();                        *)
WalletBackend_destroy ==
    /\ made.pc = "returned"
    /\ ~made.walletNull
    /\ IF made.daemon
       THEN \E salt \in Salts :
              WriteWalletFile([subWallets |-> made.wallet.subWallets,
                               scanHeight |-> made.wallet.scanHeight,
                               preparedTransactions |-> made.prepared],
                              made.password, salt, fileMode.writable)
       ELSE UNCHANGED <<walletFile, saved>>
    /\ made' = NothingMade
    /\ UNCHANGED <<opened, fileMode, queryVars>>
    /\ UNCHANGED <<txVars, guardVars>>

(* The permissions at the path change.                                     *)
File_chmod(readable, writable) ==
    /\ fileMode' = [readable |-> readable, writable |-> writable]
    /\ UNCHANGED <<made, queryVars>>
    /\ UNCHANGED <<txVars, guardVars, codecVars>>

Seeds == {NoSeed, PrivateKeyToMnemonic(2)}

(* Wallet files written under another format version, and a file that is   *)
(* no wallet file.                                                         *)
ForeignFiles ==
    {<<87, 65>>}
      \cup {WalletFileBytes(<<JsonChar.open, JsonChar.walletFileFormatVersion,
                              WriteUint(WALLET_FILE_FORMAT_VERSION + 1), JsonChar.close>>,
                            password, salt) : password \in Passwords, salt \in Salts}

ConstructNext ==
    \/ \E password \in Passwords : CreateWallet_call(password)
    \/ \E mnemonicSeed \in Seeds, password \in Passwords, height \in Heights :
         ImportWalletFromSeed_call(mnemonicSeed, password, height)
    \/ \E privateSpendKey \in {NullKey, 1}, privateViewKey \in {NullKey, 2},
          password \in Passwords, height \in Heights :
         ImportWalletFromKeys_call(privateSpendKey, privateViewKey, password, height)
    \/ \E privateViewKey \in {NullKey, 2},
          address \in {MalformedAddress, publicKeysToAddress(secretKeyToPublicKey(1))},
          password \in Passwords, height \in Heights :
         ImportViewWallet_call(privateViewKey, address, password, height)
    \/ NewWallet_construct
    \/ \E password \in Passwords : OpenWallet_call(password)
    \/ Construct_return
    \/ WalletBackend_destroy
    \/ \E readable \in BOOLEAN, writable \in BOOLEAN : File_chmod(readable, writable)
    \/ \E bytes \in ForeignFiles : File_place(bytes)
    \/ File_remove

(* ---- a wallet with prepared transactions is saved and opened again ------- *)
(* What deferred prepares can leave in m_preparedTransactions: under each  *)
(* hash of a subset of Hashes, a prepared transaction of that hash.        *)
PreparedCaches ==
    UNION {[D -> Payloads] : D \in SUBSET Hashes}

CacheOf(payloads) ==
    [h \in DOMAIN payloads |-> [transactionHash |-> h, payload |-> payloads[h]]]

(* save() of a wallet that holds these prepared transactions:              *)
(* saveWalletJSONToDisk(unsafeToJSON(), m_filename, m_password).           *)
Save_walletFile(payloads, password) ==
    /\ made.pc = "idle"
    /\ \E salt \in Salts :
         WriteWalletFile([subWallets |-> subWallets, scanHeight |-> scanHeight,
                          preparedTransactions |-> CacheOf(payloads)],
                         password, salt, fileMode.writable)
    /\ UNCHANGED <<opened, fileMode, made, queryVars>>
    /\ UNCHANGED <<txVars, guardVars>>

PersistNext ==
    \/ \E payloads \in PreparedCaches, password \in Passwords :
         Save_walletFile(payloads, password)
    \/ \E password \in Passwords : OpenWallet_call(password)
    \/ Construct_return
    \/ WalletBackend_destroy

(***************************************************************************)
(* The transaction history: getTransactions and getTransactionsRange.      *)
(***************************************************************************)
(* WalletTypes::Transaction: the hash and the height of its block.         *)
Transaction == [hash : Hashes, blockHeight : Heights]

(* The heights a caller asks for; one lies above every block.              *)
QueryHeights == 0..(MaxHeight + 1)

NoRange == [tick |-> FALSE, startHeight |-> 0, endHeight |-> 0, result |-> <<>>]

HistoryInit ==
    /\ transactions = <<>>
    /\ rangeRet = NoRange

InRange_Inclusive(tx, startHeight, endHeight) ==
    tx.blockHeight >= startHeight /\ tx.blockHeight <= endHeight

(* tx.blockHeight >= startHeight && tx.blockHeight < endHeight             *)
InRange(tx, startHeight, endHeight) ==
    tx.blockHeight >= startHeight /\ tx.blockHeight < endHeight

(* std::copy_if(first, last, std::back_inserter(result), pred): from first *)
(* to last, every element the predicate accepts is pushed to the back.     *)
RECURSIVE CopyIfInRange(_, _, _, _)
CopyIfInRange(first, result, startHeight, endHeight) ==
    IF first = <<>> THEN result
    ELSE CopyIfInRange(Tail(first),
                       IF InRange(Head(first), startHeight, endHeight)
                       THEN Append(result, Head(first)) ELSE result,
                       startHeight, endHeight)

(* The synchronizer stores a transaction it found; getTransactions()       *)
(* returns them in the order of the registry.                              *)
Transactions_store(tx) ==
    /\ ~rangeRet.tick
    /\ Len(transactions) < MaxTransactions
    /\ transactions' = Append(transactions, tx)
    /\ UNCHANGED <<rangeRet, keys, keyRet, objVars>>
    /\ UNCHANGED <<txVars, guardVars, codecVars>>

GetTransactionsRange(startHeight, endHeight) ==
    /\ ~rangeRet.tick
    /\ rangeRet' = [tick |-> TRUE, startHeight |-> startHeight, endHeight |-> endHeight,
                    result |-> CopyIfInRange(transactions, <<>>, startHeight, endHeight)]
    /\ UNCHANGED <<transactions, keys, keyRet, objVars>>
    /\ UNCHANGED <<txVars, guardVars, codecVars>>

(* The caller takes the result.                                            *)
GetTransactionsRange_return ==
    /\ rangeRet.tick
    /\ rangeRet' = NoRange
    /\ UNCHANGED <<transactions, keys, keyRet, objVars>>
    /\ UNCHANGED <<txVars, guardVars, codecVars>>

HistoryNext ==
    \/ \E tx \in Transaction : Transactions_store(tx)
    \/ \E startHeight \in QueryHeights, endHeight \in QueryHeights :
         GetTransactionsRange(startHeight, endHeight)
    \/ GetTransactionsRange_return

(***************************************************************************)
(* MinerManager: the event loop, the blockchain checker and the mining     *)
(* tasks.  The three run as contexts of one dispatcher: a context runs     *)
(* until it waits (waitEvent, m_miner.mine, waitBlockchainCheckerExpired). *)
(***************************************************************************)
MinerEventTypes == {"BLOCK_MINE_START", "BLOCK_MINED"}

(* A default-constructed BlockTemplate.                                    *)
NoBlock == 0

(* n: the position of the event among all that were pushed; by: the task   *)
(* whose block a BLOCK_MINED announces.                                    *)
NoEvent == [type |-> "none", n |-> 0, by |-> NoBlock]

(* The block of task t is block t, with a timestamp of its own.            *)
BlockTimestamp(block) == block

NotStarted ==
    [pc |-> "constructed", blocksMined |-> 0, event |-> NoEvent, consumed |-> 0,
     accepted |-> 0, submitted |-> NoBlock, ok |-> FALSE, isEmpty |-> FALSE]

(* MinerManager::MinerManager                                              *)
MinerManager_constructed(blocksLimit) ==
    /\ m_events = <<>>
    /\ m_minedBlock = NoBlock
    /\ m_lastBlockTimestamp = 0
    /\ m_config = [blocksLimit |-> blocksLimit]
    /\ eventLoop = NotStarted
    /\ checker = "constructed"
    /\ mining = {}
    /\ minerCount = [spawned |-> 0, pushed |-> 0]

MinerIdle == MinerManager_constructed(0)

(* m_events.push(std::move(event)); m_eventOccurred.set();                 *)
pushEvent(type, by) ==
    /\ minerCount.pushed < MaxEvents
    /\ m_events' = Append(m_events, [type |-> type, n |-> minerCount.pushed + 1, by |-> by])
    /\ minerCount' = [minerCount EXCEPT !.pushed = @ + 1]

(* start(): startBlockchainChecker(); eventLoop(); blocksMined = 0.        *)
MinerManager_start ==
    /\ eventLoop.pc = "constructed"
    /\ eventLoop' = [eventLoop EXCEPT !.pc = "waitEvent", !.blocksMined = 0]
    /\ checker' = "spawned"
    /\ UNCHANGED <<m_events, m_minedBlock, m_lastBlockTimestamp, m_config, mining, minerCount>>
    /\ UNCHANGED walletVars

(* The checker context: pushEvent(BlockMineStartEvent()) ...               *)
Checker_first ==
    /\ checker = "spawned"
    /\ pushEvent("BLOCK_MINE_START", NoBlock)
    /\ checker' = "waiting"
    /\ UNCHANGED <<m_minedBlock, m_lastBlockTimestamp, m_config, eventLoop, mining>>
    /\ UNCHANGED walletVars

(* ... while (1) { waitBlockchainCheckerExpired();                         *)
(*                 if (getCheckerStatus()) break;                          *)
(*                 pushEvent(BlockMineStartEvent()); }                     *)
Checker_expired(status) ==
    /\ checker = "waiting"
    /\ IF status
       THEN /\ checker' = "done"
            /\ UNCHANGED <<m_events, minerCount>>
       ELSE /\ pushEvent("BLOCK_MINE_START", NoBlock)
            /\ UNCHANGED checker
    /\ UNCHANGED <<m_minedBlock, m_lastBlockTimestamp, m_config, eventLoop, mining>>
    /\ UNCHANGED walletVars

(* if (!params.isEmpty) startMining(params): m_contextGroup.spawn(...).    *)
(* pushed: the events pushed up to now.                                    *)
startMining(isEmpty, pushed) ==
    IF isEmpty
    THEN /\ UNCHANGED mining
         /\ minerCount' = [minerCount EXCEPT !.pushed = pushed]
    ELSE /\ minerCount.spawned < MaxTasks
         /\ mining' = mining \cup {minerCount.spawned + 1}
         /\ minerCount' = [spawned |-> minerCount.spawned + 1, pushed |-> pushed]

(* MinerEvent event = waitEvent(): m_events.front(); m_events.pop();       *)
(* case BLOCK_MINE_START: params = requestMiningParameters();              *)
(*   adjustBlockTemplate(params.blockTemplate);                            *)
(*   if (!params.isEmpty) startMining(params);                             *)
EventLoop_BLOCK_MINE_START(isEmpty) ==
    /\ eventLoop.pc = "waitEvent"
    /\ m_events # <<>>
    /\ Head(m_events).type = "BLOCK_MINE_START"
    /\ m_events' = Tail(m_events)
    /\ eventLoop' = [eventLoop EXCEPT !.event = Head(m_events), !.consumed = @ + 1,
                                      !.isEmpty = isEmpty]
    /\ startMining(isEmpty, minerCount.pushed)
    /\ UNCHANGED <<m_minedBlock, m_lastBlockTimestamp, m_config, checker>>
    /\ UNCHANGED walletVars

EventLoop_BLOCK_MINED_CountsRejected(accepted, isEmpty) ==
    /\ eventLoop.pc = "waitEvent"
    /\ m_events # <<>>
    /\ Head(m_events).type = "BLOCK_MINED"
    /\ m_events' = Tail(m_events)
    /\ LET counted == m_config.blocksLimit # 0
           final == counted /\ eventLoop.blocksMined + 1 = m_config.blocksLimit
       IN /\ m_lastBlockTimestamp' = IF accepted THEN BlockTimestamp(m_minedBlock)
                                     ELSE m_lastBlockTimestamp
          /\ eventLoop' =
               [eventLoop EXCEPT !.pc = IF final THEN "returned" ELSE "waitEvent",
                                 !.blocksMined = IF counted THEN @ + 1 ELSE @,
                                 !.event = Head(m_events), !.consumed = @ + 1,
                                 !.accepted = IF accepted THEN @ + 1 ELSE @,
                                 !.submitted = m_minedBlock, !.ok = accepted,
                                 !.isEmpty = IF final THEN @ ELSE isEmpty]
          /\ IF final
             THEN UNCHANGED <<mining, minerCount>>
             ELSE startMining(isEmpty, minerCount.pushed)
    /\ UNCHANGED <<m_minedBlock, m_config, checker>>
    /\ UNCHANGED walletVars

(* case BLOCK_MINED:                                                       *)
(*   if (submitBlock(m_minedBlock)) {                                      *)
(*     m_lastBlockTimestamp = m_minedBlock.timestamp;                      *)
(*     if (m_config.blocksLimit != 0 && ++blocksMined == m_config.blocksLimit) *)
(*       return; }                                                         *)
(*   params = requestMiningParameters(); adjustBlockTemplate(...);         *)
(*   if (!params.isEmpty) startMining(params);                             *)
EventLoop_BLOCK_MINED(accepted, isEmpty) ==
    /\ eventLoop.pc = "waitEvent"
    /\ m_events # <<>>
    /\ Head(m_events).type = "BLOCK_MINED"
    /\ m_events' = Tail(m_events)
    /\ LET counted == accepted /\ m_config.blocksLimit # 0
           final == counted /\ eventLoop.blocksMined + 1 = m_config.blocksLimit
       IN /\ m_lastBlockTimestamp' = IF accepted THEN BlockTimestamp(m_minedBlock)
                                     ELSE m_lastBlockTimestamp
          /\ eventLoop' =
               [eventLoop EXCEPT !.pc = IF final THEN "returned" ELSE "waitEvent",
                                 !.blocksMined = IF counted THEN @ + 1 ELSE @,
                                 !.event = Head(m_events), !.consumed = @ + 1,
                                 !.accepted = IF accepted THEN @ + 1 ELSE @,
                                 !.submitted = m_minedBlock, !.ok = accepted,
                                 !.isEmpty = IF final THEN @ ELSE isEmpty]
          /\ IF final
             THEN UNCHANGED <<mining, minerCount>>
             ELSE startMining(isEmpty, minerCount.pushed)
    /\ UNCHANGED <<m_minedBlock, m_config, checker>>
    /\ UNCHANGED walletVars

(* The task of startMining: m_minedBlock = m_miner.mine(params, ...);      *)
(* pushEvent(BlockMinedEvent());                                           *)
Task_mined(task) ==
    /\ task \in mining
    /\ m_minedBlock' = task
    /\ pushEvent("BLOCK_MINED", task)
    /\ mining' = mining \ {task}
    /\ UNCHANGED <<m_lastBlockTimestamp, m_config, eventLoop, checker>>
    /\ UNCHANGED walletVars

(* m_miner.mine threw: catch (const std::exception &) {}                   *)
Task_threw(task) ==
    /\ task \in mining
    /\ mining' = mining \ {task}
    /\ UNCHANGED <<m_events, m_minedBlock, m_lastBlockTimestamp, m_config, eventLoop,
                   checker, minerCount>>
    /\ UNCHANGED walletVars

MinerNext ==
    \/ MinerManager_start
    \/ Checker_first
    \/ \E status \in BOOLEAN : Checker_expired(status)
    \/ \E isEmpty \in BOOLEAN : EventLoop_BLOCK_MINE_START(isEmpty)
    \/ \E accepted \in BOOLEAN, isEmpty \in BOOLEAN : EventLoop_BLOCK_MINED(accepted, isEmpty)
    \/ \E task \in 1..MaxTasks : Task_mined(task)
    \/ \E task \in 1..MaxTasks : Task_threw(task)

WalletInit == TxInit /\ GuardInit /\ CodecIdle /\ HistoryInit /\ KeysInit /\ ObjectInit

Init == WalletInit /\ MinerIdle

Next == TxNext

Spec == Init /\ [][Next]_vars

GuardNext == SyncStep \/ FgStep \/ FgCall

GuardSpec == Init /\ [][GuardNext]_vars

(* The five operations that take the transaction lock, and the removal.   *)
PipelineNext == TxNext \/ FusionNext

PipelineSpec == Init /\ [][PipelineNext]_vars

(* sendTransactionBasic (deferred, so that there are prepared transactions *)
(* to send) and sendPreparedTransaction, with the synchronizer running in  *)
(* the background.                                                         *)
PipelineSyncNext ==
    \/ \E t \in Threads : SendTransactionBasic_lock(t, FALSE)
    \/ \E t \in Threads : SendTransactionBasic_build(t)
    \/ \E t \in Threads : SendTransactionBasic_cache(t)
    \/ \E t \in Threads, h \in Hashes : SendPrepared_lock(t, h)
    \/ \E t \in Threads : SendPrepared_find(t)
    \/ \E t \in Threads : SendPrepared_submit(t)
    \/ \E t \in Threads : SendPrepared_remove(t)
    \/ Sync_check
    \/ Sync_work

PipelineSyncSpec == Init /\ [][PipelineSyncNext]_vars

(* Saving and opening the wallet file, and what else happens to the file. *)
CodecSpec == Init /\ [][CodecNext]_vars

(* The five construction paths and the destructor, and what else happens   *)
(* at the path of the wallet file.                                         *)
ConstructSpec == Init /\ [][ConstructNext]_vars

(* Save of a wallet that holds prepared transactions, and openWallet of     *)
(* what was saved.                                                         *)
PersistSpec == Init /\ [][PersistNext]_vars

(* The wallet after deferred prepares: every cache they can leave.         *)
FrameInit ==
    /\ m_preparedTransactions \in {CacheOf(payloads) : payloads \in PreparedCaches}
    /\ m_transactionMutex = NoThread
    /\ pc = [t \in Threads |-> "idle"]
    /\ call = [t \in Threads |-> IdleCall]
    /\ lastRet = NoRet
    /\ sentOK = {}
    /\ GuardInit /\ CodecIdle /\ HistoryInit /\ KeysInit /\ ObjectInit
    /\ MinerIdle

(* The lifecycle operations on a wallet that holds prepared transactions,  *)
(* with the synchronizer in the background.                                *)
FrameSpec == FrameInit /\ [][FrameNext]_vars

(* ---- the three imports alone -------------------------------------------- *)
ImportOnlyCall ==
    \/ \E address \in Addresses, height \in Heights, valid \in BOOLEAN :
         ImportSubWallet_call(address, height, valid)
    \/ \E address \in Addresses, height \in Heights :
         ImportSubWalletIndex_call(address, height)
    \/ \E address \in Addresses, height \in Heights, valid \in BOOLEAN :
         ImportViewSubWallet_call(address, height, valid)

ImportOnlyStep ==
    \/ Guard_enter \/ Guard_wait \/ Guard_exit
    \/ Import_import \/ Import_height \/ Import_sync
    \/ ImportSubWallet_subWallets \/ ImportSubWalletIndex_subWallets
    \/ ImportViewSubWallet_subWallets
    \/ Lifecycle_return

ImportNext == SyncStep \/ ImportOnlyCall \/ ImportOnlyStep

(* The imports of sub-wallets, with the synchronizer in the background.    *)
ImportSpec == Init /\ [][ImportNext]_vars

(* ---- the two synchronizations side by side ------------------------------ *)
(* What a lifecycle caller does next inside an operation it has started.   *)
LockFgStep ==
    \/ Guard_enter \/ Guard_wait \/ Guard_exit
    \/ UnsafeToJSON_subWallets
    \/ Save_unsafeSave
    \/ Rewind_sync \/ Rewind_subWallets \/ Rewind_save
    \/ Reset_sync \/ Reset_subWallets \/ Reset_save
    \/ ScanRange_sync \/ ScanRange_subWallets \/ ScanRange_setEndScanHeight
    \/ ScanRange_save
    \/ Lifecycle_return

LockFgCall ==
    \/ Save_call
    \/ Rewind_call(1, 0)
    \/ Reset_call(1, 0)
    \/ ScanRange_call(1, 2)

(* A transaction operation of thread t takes m_transactionMutex ...        *)
LockTxCall(t) == SendFusionTransactionBasic_lock(t)

(* ... and runs to its return with the lock held.                          *)
LockTxStep(t) == SendFusionTransactionBasic_send(t)

LockNext ==
    \/ SyncStep
    \/ LockFgCall
    \/ LockFgStep
    \/ \E t \in Threads : LockTxCall(t)
    \/ \E t \in Threads : LockTxStep(t)

(* Transaction operations on every thread and lifecycle operations at the  *)
(* same time.                                                              *)
LockSpec == Init /\ [][LockNext]_vars

(* The miner: the event loop, the checker and the mining tasks, for every  *)
(* blocksLimit up to MaxBlocksLimit.                                       *)
MinerInit ==
    /\ WalletInit
    /\ \E blocksLimit \in 0..MaxBlocksLimit : MinerManager_constructed(blocksLimit)

MinerSpec == MinerInit /\ [][MinerNext]_vars

(* The key queries, over the containers the constructors and the imports   *)
(* make.                                                                   *)
KeysSpec == Init /\ [][KeysNext]_vars

(* The transaction history and its range query.                            *)
HistorySpec == Init /\ [][HistoryNext]_vars

(* Every lifecycle operation, with the synchronizer in the background.     *)
LifecycleNext == SyncStep \/ FgStep \/ FgCall \/ ImportStep \/ ImportCall

LifecycleSpec == Init /\ [][LifecycleNext]_vars

(* The synchronizer thread and a caller inside an operation keep running.  *)
GuardFairSpec == GuardSpec /\ WF_vars(SyncStep) /\ WF_vars(FgStep)

(***************************************************************************)
(* Properties of the prepared-transaction cache (checked under Spec).      *)
(***************************************************************************)
PrepareOps == {"sendTransactionBasic", "sendTransactionAdvanced"}

(* C1: at-most-once send. A sendPreparedTransaction(h) whose lookup comes  *)
(* after a successful send of h, with no deferred prepare of h in between, *)
(* returns PREPARED_TRANSACTION_NOT_FOUND and hands nothing to the daemon; *)
(* such an h is not in the cache.                                          *)
C1_AtMostOnceSend ==
    /\ \A h \in sentOK : h \notin DOMAIN m_preparedTransactions
    /\ (lastRet.op = "sendPreparedTransaction" /\ lastRet.wasSent)
         => /\ lastRet.error = "PREPARED_TRANSACTION_NOT_FOUND"
            /\ ~lastRet.submitted
            /\ ~lastRet.broadcast

C1_Witness ==
    /\ lastRet.op = "sendPreparedTransaction"
    /\ lastRet.wasSent
    /\ lastRet.error = "PREPARED_TRANSACTION_NOT_FOUND"

(* C2: the last step of sendPreparedTransaction(h) erases h, and nothing   *)
(* else, when the submission result is SUCCESS or                          *)
(* PREPARED_TRANSACTION_EXPIRED, and leaves the cache as it is for every   *)
(* other result; its lookup and submission steps never change the cache.   *)
C2_RemoveOnlyOnSuccessOrExpiry ==
    [][\A t \in Threads :
         /\ (pc[t] = "sp_remove" /\ pc'[t] = "idle")
              => IF call[t].error \in {"SUCCESS", "PREPARED_TRANSACTION_EXPIRED"}
                 THEN m_preparedTransactions' = MapErase(m_preparedTransactions, call[t].h)
                 ELSE m_preparedTransactions' = m_preparedTransactions
         /\ (pc[t] \in {"sp_find", "sp_submit"} /\ pc'[t] # pc[t])
              => m_preparedTransactions' = m_preparedTransactions]_vars

C2_Witness ==
    /\ lastRet.op = "sendPreparedTransaction"
    /\ lastRet.error = "DAEMON_OFFLINE"
    /\ lastRet.h \in DOMAIN m_preparedTransactions
    /\ m_preparedTransactions[lastRet.h] = lastRet.ptx

(* C3: sendPreparedTransaction(h) for an h that is not cached returns      *)
(* PREPARED_TRANSACTION_NOT_FOUND at its lookup, without a submission and  *)
(* without a change to the cache.                                          *)
C3_NotFound ==
    [][\A t \in Threads :
         (/\ pc[t] = "sp_find"
          /\ call[t].h \notin DOMAIN m_preparedTransactions
          /\ pc'[t] # pc[t])
            => /\ pc'[t] = "idle"
               /\ lastRet'.op = "sendPreparedTransaction"
               /\ lastRet'.h = call[t].h
               /\ lastRet'.error = "PREPARED_TRANSACTION_NOT_FOUND"
               /\ lastRet'.hash = NullHash
               /\ ~lastRet'.submitted
               /\ ~lastRet'.broadcast
               /\ m_preparedTransactions' = m_preparedTransactions]_vars

C3_Witness ==
    /\ lastRet.op = "sendPreparedTransaction"
    /\ lastRet.error = "PREPARED_TRANSACTION_NOT_FOUND"
    /\ ~lastRet.wasSent
    /\ ~lastRet.submitted
    /\ DOMAIN m_preparedTransactions # {}

(* C4: when a deferred prepare (sendTransaction = false) has returned      *)
(* without error, the cache maps the returned hash to the returned         *)
(* prepared transaction and nothing was broadcast.                         *)
C4_DeferredPrepareCached ==
    (lastRet.op \in PrepareOps /\ ~lastRet.send /\ lastRet.error = "SUCCESS")
      => /\ lastRet.hash \in DOMAIN m_preparedTransactions
         /\ m_preparedTransactions[lastRet.hash] = lastRet.ptx
         /\ ~lastRet.broadcast

C4_Witness ==
    /\ lastRet.op = "sendTransactionBasic"
    /\ ~lastRet.send
    /\ lastRet.error = "SUCCESS"
    /\ m_preparedTransactions[lastRet.hash] = lastRet.ptx
    /\ Cardinality(DOMAIN m_preparedTransactions) = NumHashes

(* C5: a step of sendTransactionBasic / sendTransactionAdvanced changes    *)
(* the cache only as the last step of a deferred call whose build returned *)
(* no error.                                                               *)
C5_CacheUntouchedUnlessDeferredSuccess ==
    [][\A t \in Threads :
         (/\ pc[t] \in {"st_build", "st_cache"}
          /\ pc'[t] # pc[t]
          /\ m_preparedTransactions' # m_preparedTransactions)
            => /\ pc[t] = "st_cache"
               /\ ~call[t].send
               /\ call[t].error = "SUCCESS"]_vars

C5_Witness ==
    /\ lastRet.op = "sendTransactionAdvanced"
    /\ lastRet.send
    /\ lastRet.error = "SUCCESS"
    /\ lastRet.broadcast
    /\ DOMAIN m_preparedTransactions # {}
    /\ lastRet.hash \notin DOMAIN m_preparedTransactions

(* C6: removePreparedTransaction(h) returns true iff h was cached, leaves  *)
(* h out of the cache and every other entry as it was; called again right  *)
(* after a removePreparedTransaction(h) it returns false and changes       *)
(* nothing.                                                                *)
C6_RemoveIdempotent ==
    [][(lastRet'.tick # lastRet.tick /\ lastRet'.op = "removePreparedTransaction")
         => /\ lastRet'.removed = (lastRet'.h \in DOMAIN m_preparedTransactions)
            /\ lastRet'.h \notin DOMAIN m_preparedTransactions'
            /\ m_preparedTransactions' = MapErase(m_preparedTransactions, lastRet'.h)
            /\ lastRet'.again
                 => /\ ~lastRet'.removed
                    /\ m_preparedTransactions' = m_preparedTransactions]_vars

C6_Witness ==
    /\ lastRet.op = "removePreparedTransaction"
    /\ lastRet.again
    /\ lastRet.prevRemoved
    /\ ~lastRet.removed
    /\ DOMAIN m_preparedTransactions # {}

(***************************************************************************)
(* Properties of the synchronizer guard (checked under GuardSpec, the      *)
(* liveness ones under GuardFairSpec).                                     *)
(***************************************************************************)
InGuardedFunction ==
    fg.pc \in FunctionPcs \/ (fg.inner /\ fg.pc \in {"g_enter", "g_wait"})

(* C7: guard exclusivity. From the start to the end of the function of a   *)
(* lifecycle mutation (rewind and the others) the synchronizer stays       *)
(* paused and the counter of its writes keeps the value it had when the    *)
(* function started: the synchronizer has written nothing since.           *)
C7_GuardExclusivity ==
    InGuardedFunction => (syncPc = "paused" /\ ~syncWrote)

C7_Witness ==
    /\ fg.op = "rewind"
    /\ fg.pc = "g_exit"
    /\ syncPc = "paused"
    /\ ~syncWrote
    /\ disk.written
    /\ disk.scanHeight = fg.scanHeight
    /\ scanHeight < MaxHeight

(* C8: when a lifecycle operation has finished, by returning a value, an   *)
(* error or by rethrowing, no guarded call is in progress and the pause    *)
(* signal is withdrawn.                                                    *)
C8_ResumedOnReturn ==
    fg.pc \in {"done", "idle"} => (guardDepth = 0 /\ ~pauseRequested)

C8_Witness ==
    /\ fg.pc = "done"
    /\ fg.op \in {"save", "deleteSubWallet"}
    /\ fg.threw
    /\ guardDepth = 0
    /\ ~pauseRequested

(* C9: a guarded call made from inside a guarded function completes: the   *)
(* inner call is entered and the whole operation returns.                  *)
C9_ReentrantCompletes ==
    (fg.inner /\ fg.pc = "g_enter") ~> (fg.op = "reentrant" /\ fg.pc = "done")

C9_Witness ==
    /\ fg.op = "reentrant"
    /\ fg.pc = "rn_after"
    /\ guardDepth = 1
    /\ disk.written

(* C10: every guarded call that waits for the pause acknowledgment         *)
(* eventually gets it, runs its function and returns.                      *)
C10_GuardLiveness ==
    (fg.pc = "g_wait") ~> (fg.pc = "done")

C10_Witness ==
    /\ fg.pc = "g_wait"
    /\ ~fg.inner
    /\ pauseRequested
    /\ syncPc = "work"


(***************************************************************************)
(* Properties of the lifecycle operations (checked under LifecycleSpec and *)
(* GuardSpec).                                                             *)
(***************************************************************************)
(* C11: every write that reset, rewind, scanRange, addSubWallet, the three *)
(* imports, deleteSubWallet and save make to the synchronizer's state or   *)
(* to the registry, and the snapshot save takes of them, happens inside    *)
(* the guarded section: the guard is held and the synchronizer is paused   *)
(* before the step and after it.                                           *)
C11_WritesInsideGuard ==
    [][(fg' # fg /\ <<scanHeight, endScanHeight, subWallets, disk>>'
                      # <<scanHeight, endScanHeight, subWallets, disk>>)
         => (/\ guardDepth > 0 /\ pauseRequested /\ syncPc = "paused"
             /\ guardDepth' > 0 /\ pauseRequested' /\ syncPc' = "paused")]_vars

C11_Witness ==
    /\ fg.op = "importViewSubWallet"
    /\ fg.pc = "g_exit"
    /\ fg.regCut # NoHeight
    /\ syncPc = "paused"

CutHeight ==
    IF fg.argTimestamp # 0 THEN timestampToScanHeight(fg.argTimestamp)
    ELSE fg.argHeight

(* C15: reset and rewind cut at one height: the converted timestamp when a *)
(* timestamp is given (the supplied height is ignored), the supplied       *)
(* height otherwise; the synchronizer and the registry are both rolled     *)
(* back to that height.                                                    *)
C15_SingleCutHeight ==
    (fg.op \in {"reset", "rewind"}
       /\ fg.pc \in {"rs_json", "rw_json", "rs_save", "rw_save", "g_exit"})
    => (/\ fg.syncCut = CutHeight
        /\ fg.regCut = CutHeight
        /\ scanHeight = CutHeight
        /\ \A h \in subWallets.txs : h < CutHeight)

C15_Witness ==
    /\ fg.op = "rewind"
    /\ fg.pc = "rw_save"
    /\ fg.argTimestamp # 0
    /\ fg.argHeight # timestampToScanHeight(fg.argTimestamp)
    /\ subWallets.txs # {}

(* C16: scanRange(start, end) rewinds the checkpoint and the registry to   *)
(* start and sets the end scan height to end inside one guarded section:   *)
(* the synchronizer is paused from the rewind until the end height is set, *)
(* and at the end of the operation all three hold.                         *)
C16_ScanRangeAtomic ==
    fg.op = "scanRange"
    => (/\ fg.pc \in {"sr_sync", "sr_subwallets", "sr_end", "sr_json", "sr_save"}
             => syncPc = "paused"
        /\ fg.pc \in {"sr_json", "sr_save", "g_exit"}
             => (/\ scanHeight = fg.argHeight
                 /\ \A h \in subWallets.txs : h < fg.argHeight
                 /\ endScanHeight = fg.endScanHeight))

C16_Witness ==
    /\ fg.op = "scanRange"
    /\ fg.pc = "g_exit"
    /\ fg.argHeight > 0
    /\ fg.endScanHeight > fg.argHeight
    /\ endScanHeight = fg.endScanHeight
    /\ subWallets.txs = {}


(***************************************************************************)
(* Properties of the transaction lock (checked under PipelineSpec and      *)
(* PipelineSyncSpec).                                                      *)
(***************************************************************************)
(* A thread is between taking the transaction lock and releasing it.       *)
InTransactionOp(t) == pc[t] # "idle"

(* C13: the transaction lock serialises sendTransactionBasic,              *)
(* sendTransactionAdvanced, sendPreparedTransaction and the two fusion     *)
(* operations: no two threads are inside one of them (build, submit,       *)
(* cache update) at once, and the thread inside holds the lock.            *)
C13_TransactionOpsSerialized ==
    \A t1, t2 \in Threads :
      (InTransactionOp(t1) /\ InTransactionOp(t2))
        => (t1 = t2 /\ m_transactionMutex = t1)

C13_Witness ==
    \E t \in Threads :
      /\ pc[t] = "fu_send"
      /\ m_transactionMutex = t
      /\ lastRet.op = "sendPreparedTransaction"
      /\ m_preparedTransactions # <<>>

(* C14: sendTransactionBasic and sendPreparedTransaction never pause the   *)
(* synchronizer: while a thread holds the transaction lock no pause is     *)
(* requested and the synchronizer is checking the pause flag or scanning,  *)
(* never paused, so it keeps taking scan steps.                            *)
C14_PipelineDoesNotPause ==
    (\E t \in Threads : InTransactionOp(t))
      => (/\ ~pauseRequested
          /\ guardDepth = 0
          /\ syncPc \in {"check", "work"})

C14_Witness ==
    \E t \in Threads :
      /\ pc[t] = "sp_submit"
      /\ m_transactionMutex = t
      /\ syncPc = "work"
      /\ scanHeight > 0
      /\ scanHeight < MaxHeight


(***************************************************************************)
(* Properties of the wallet file (checked under CodecSpec).                *)
(***************************************************************************)
(* The steps of openWallet, in the order it takes them.                    *)
OpenOrder == <<"open", "magic", "salt", "decrypt", "password", "parse", "fromJSON">>

LastStep == opened.steps[Len(opened.steps)]

FileHasMagic == HasPrefix(walletFile.bytes, IS_A_WALLET_IDENTIFIER)

FileHasSalt == Len(walletFile.bytes) >= Len(IS_A_WALLET_IDENTIFIER) + SaltSize

(* C17: openWallet takes its steps in one order and stops at the first     *)
(* that fails, returning that step's error: no file FilenameNonExistent,   *)
(* no leading identifier NotAWalletFile, fewer than 16 bytes of salt       *)
(* WalletFileCorrupted, a decryption failure WrongPassword, then the       *)
(* password identifier check, a parse failure WalletFileCorrupted, a       *)
(* version mismatch UnsupportedWalletFileFormatVersion.                    *)
C17_FirstFailureInOrder ==
    opened.tick =>
      /\ opened.steps = SubSeq(OpenOrder, 1, Len(opened.steps))
      /\ opened.error = "SUCCESS" => LastStep = "fromJSON"
      /\ ~walletFile.exists
           <=> (LastStep = "open" /\ opened.error = "FILENAME_NON_EXISTENT")
      /\ (walletFile.exists /\ ~FileHasMagic)
           <=> (LastStep = "magic" /\ opened.error = "NOT_A_WALLET_FILE")
      /\ (walletFile.exists /\ FileHasMagic /\ ~FileHasSalt)
           <=> (LastStep = "salt" /\ opened.error = "WALLET_FILE_CORRUPTED")
      /\ LastStep = "decrypt" => opened.error = "WRONG_PASSWORD"
      /\ LastStep = "password"
           => (/\ opened.error \in {"WALLET_FILE_CORRUPTED", "WRONG_PASSWORD"}
               /\ ~HasPrefix(opened.decrypted, IS_CORRECT_PASSWORD_IDENTIFIER))
      /\ LastStep = "parse"
           => (opened.error = "WALLET_FILE_CORRUPTED" /\ HasParseError(opened.parsed))
      /\ LastStep = "fromJSON"
           => (/\ ~HasParseError(opened.parsed)
               /\ opened.error \in {"SUCCESS", "WALLET_FILE_CORRUPTED",
                                    "UNSUPPORTED_WALLET_FILE_FORMAT_VERSION"}
               /\ opened.error = "UNSUPPORTED_WALLET_FILE_FORMAT_VERSION"
                    <=> (~opened.walletNull
                         /\ opened.version # WALLET_FILE_FORMAT_VERSION))

C17_Witness ==
    /\ opened.tick
    /\ LastStep = "fromJSON"
    /\ opened.error = "UNSUPPORTED_WALLET_FILE_FORMAT_VERSION"

(* C18: a file with the leading identifier and a salt, written by a save   *)
(* with one password and opened with another, yields WrongPassword and     *)
(* never WalletFileCorrupted, whether its ciphertext is the one the save   *)
(* wrote or was corrupted since.                                           *)
C18_WrongPasswordIndistinguishable ==
    (/\ opened.tick
     /\ saved.valid
     /\ opened.password # saved.password
     /\ FileHasMagic
     /\ FileHasSalt)
    => opened.error = "WRONG_PASSWORD"

(* C19: at the password identifier check, decrypted data at least as long  *)
(* as the identifier that does not start with it yields WrongPassword,     *)
(* shorter data yields WalletFileCorrupted, and on a match the identifier  *)
(* is removed and the rest is what is parsed.                              *)
C19_PasswordIdentifierCheck ==
    (opened.tick /\ Len(opened.steps) >= 5)
    => LET d == opened.decrypted
           n == Len(IS_CORRECT_PASSWORD_IDENTIFIER)
       IN /\ Len(d) < n
               => (LastStep = "password" /\ opened.error = "WALLET_FILE_CORRUPTED")
          /\ (Len(d) >= n /\ ~HasPrefix(d, IS_CORRECT_PASSWORD_IDENTIFIER))
               => (LastStep = "password" /\ opened.error = "WRONG_PASSWORD")
          /\ HasPrefix(d, IS_CORRECT_PASSWORD_IDENTIFIER)
               => (/\ Len(opened.steps) >= 6
                   /\ opened.parsed = CStr(SubSeq(d, n + 1, Len(d))))

C19_Witness ==
    /\ opened.tick
    /\ LastStep = "password"
    /\ opened.error = "WALLET_FILE_CORRUPTED"
    /\ Len(opened.decrypted) < Len(IS_CORRECT_PASSWORD_IDENTIFIER)
    /\ Len(opened.decrypted) > 0

(* C20: a container saved with a password and opened from the written file *)
(* with that password opens with success and has the format version, the   *)
(* registry and the checkpoint that were saved.                            *)
C20_SaveOpenRoundTrip ==
    (/\ opened.tick
     /\ saved.valid
     /\ ~saved.corrupted
     /\ opened.password = saved.password)
    => (/\ opened.error = "SUCCESS"
        /\ ~opened.walletNull
        /\ opened.version = WALLET_FILE_FORMAT_VERSION
        /\ opened.wallet.subWallets = saved.container.subWallets
        /\ opened.wallet.scanHeight = saved.container.scanHeight)

C20_Witness ==
    /\ opened.tick
    /\ saved.valid
    /\ ~saved.corrupted
    /\ opened.password = saved.password
    /\ opened.error = "SUCCESS"
    /\ opened.wallet = saved.container
    /\ opened.wallet.scanHeight = MaxHeight
    /\ opened.wallet.subWallets.txs = 1..MaxHeight
    /\ opened.wallet.subWallets.addresses = Addresses

(***************************************************************************)
(* C21: every save draws a fresh 16-byte salt, no salt is used by two      *)
(* saves, and so two successive saves of an unchanged container under an   *)
(* unchanged password write different file contents.  The salt is drawn at *)
(* random, and two draws can come out equal.                               *)
(***************************************************************************)
SaltIn(bytes) ==
    SubSeq(bytes, Len(IS_A_WALLET_IDENTIFIER) + 1, Len(IS_A_WALLET_IDENTIFIER) + SaltSize)

C29_FusionPreparedCached ==
    (lastRet.op \in FusionOps /\ lastRet.error = "SUCCESS")
      => lastRet.hash \in DOMAIN m_preparedTransactions

(* C29 as amended: the two fusion operations have no deferred mode: they   *)
(* take the transaction lock, return what the send returned and leave the  *)
(* prepared-transaction cache as it is, so no fusion transaction is ever   *)
(* submitted through sendPreparedTransaction.                              *)
C29_FusionLeavesCacheAlone ==
    [][\A t \in Threads :
         (call[t].op \in FusionOps /\ (pc'[t] # pc[t] \/ call'[t] # call[t]))
           => /\ m_preparedTransactions' = m_preparedTransactions
              /\ m_transactionMutex = t
              /\ pc'[t] = "idle"
              /\ lastRet'.op = call[t].op
              /\ lastRet'.send]_vars

C29_Witness ==
    /\ lastRet.op \in FusionOps
    /\ lastRet.error = "SUCCESS"
    /\ m_preparedTransactions # <<>>
    /\ lastRet.hash \notin DOMAIN m_preparedTransactions

(***************************************************************************)
(* C30: a failure of the persist step performed inside reset, rewind or    *)
(* scanRange is returned to the caller of that operation.                  *)
(***************************************************************************)
C30_PersistFailureReturned ==
    (/\ fg.pc = "done"
     /\ fg.op \in {"reset", "rewind", "scanRange"}
     /\ ~fg.threw)
      => fg.result = fg.persist

(***************************************************************************)
(* C26: getTransactionsRange(a, b) returns exactly the transactions of     *)
(* getTransactions() whose block height h satisfies a <= h < b, in their   *)
(* original order and with duplicates kept, and nothing when a >= b.       *)
(***************************************************************************)
RangeIndexes ==
    {i \in 1..Len(transactions) :
       /\ rangeRet.startHeight <= transactions[i].blockHeight
       /\ transactions[i].blockHeight < rangeRet.endHeight}

C26_RangeIsHalfOpenFilter ==
    rangeRet.tick =>
        /\ Len(rangeRet.result) = Cardinality(RangeIndexes)
        /\ \A i \in RangeIndexes :
             rangeRet.result[Cardinality({j \in RangeIndexes : j <= i})] = transactions[i]
        /\ (rangeRet.startHeight >= rangeRet.endHeight => rangeRet.result = <<>>)

(* Two entries of one height are both returned, in their order, and an     *)
(* entry at the end height is left out.                                    *)
C26_Witness ==
    /\ rangeRet.tick
    /\ Len(transactions) = 3
    /\ transactions[1] = transactions[3]
    /\ transactions[2].blockHeight = rangeRet.endHeight
    /\ rangeRet.result = <<transactions[1], transactions[3]>>

(***************************************************************************)
(* C24: getMnemonicSeedForAddress returns KeysNotDeterministic, and no     *)
(* seed, whenever the view key re-derived from the private spend key of    *)
(* the address differs from the stored view key of the container; it       *)
(* returns a seed only when the two are equal.                             *)
(***************************************************************************)
OursWithKey(address) ==
    /\ address \in KeyAddresses
    /\ addressToKeys(address) \in DOMAIN keys.subWallets

Rederived(address) == generateViewFromSpend(keys.subWallets[addressToKeys(address)])

C24_KeysNotDeterministic ==
    (keyRet.tick /\ keyRet.op = "getMnemonicSeedForAddress") =>
        /\ (OursWithKey(keyRet.address)
              /\ Rederived(keyRet.address) # keys.privateViewKey)
             => (keyRet.error = "KEYS_NOT_DETERMINISTIC" /\ keyRet.seed = NoSeed)
        /\ keyRet.seed # NoSeed
             => /\ OursWithKey(keyRet.address)
                /\ Rederived(keyRet.address) = keys.privateViewKey
                /\ keyRet.error = "SUCCESS"

(* A sub-wallet whose spend key does not derive to the stored view key,   *)
(* in a container that also holds one whose spend key does.                *)
C24_Witness ==
    /\ keyRet.tick /\ keyRet.op = "getMnemonicSeedForAddress"
    /\ OursWithKey(keyRet.address)
    /\ keys.subWallets[addressToKeys(keyRet.address)] # NullKey
    /\ Rederived(keyRet.address) # keys.privateViewKey
    /\ keyRet.error = "KEYS_NOT_DETERMINISTIC"
    /\ \E q \in DOMAIN keys.subWallets :
         generateViewFromSpend(keys.subWallets[q]) = keys.privateViewKey

(***************************************************************************)
(* C25: for a well-formed address that is not one of the sub-wallets of    *)
(* the container, getSpendKeys and getMnemonicSeedForAddress return an     *)
(* error and no private key or seed.                                       *)
(***************************************************************************)
C25_KeysOnlyForOwnAddress ==
    (/\ keyRet.tick
     /\ keyRet.address \in KeyAddresses
     /\ addressToKeys(keyRet.address) \notin DOMAIN keys.subWallets)
      => /\ keyRet.error # "SUCCESS"
         /\ keyRet.privateSpendKey = NullKey
         /\ keyRet.seed = NoSeed

(* The address is of a key pair that exists, and the stored view key is    *)
(* the one the key of all zeros derives to.                                *)
C25_Witness ==
    /\ keyRet.tick /\ keyRet.op = "getMnemonicSeedForAddress"
    /\ keyRet.address \in KeyAddresses
    /\ addressToKeys(keyRet.address) \notin DOMAIN keys.subWallets
    /\ keys.privateViewKey = generateViewFromSpend(NullKey)
    /\ keyRet.error = "ADDRESS_NOT_IN_WALLET"

(***************************************************************************)
(* C22: each of createWallet, importWalletFromSeed, importWalletFromKeys   *)
(* and importViewWallet fails with WalletFileAlreadyExists whenever a file *)
(* exists at the target path and with InvalidWalletFilename when the path  *)
(* cannot be written, before it looks at the seed, the keys or the         *)
(* address.                                                                *)
(***************************************************************************)
C22_FilenameCheckedFirst ==
    (made.op \in NewWalletOps /\ made.pc \in {"construct", "returned"}) =>
        /\ made.atCall.exists
             => /\ made.pc = "returned"
                /\ made.error = "WALLET_FILE_ALREADY_EXISTS"
                /\ made.walletNull
        /\ (~made.atCall.exists /\ ~made.atCall.writable)
             => /\ made.pc = "returned"
                /\ made.error = "INVALID_WALLET_FILENAME"
                /\ made.walletNull

(***************************************************************************)
(* C23: each construction path returns either a wallet handle with no      *)
(* error or an error with no wallet handle.                                *)
(***************************************************************************)
C23_WalletOrError ==
    made.pc = "returned" =>
        \/ made.error = "SUCCESS" /\ ~made.walletNull
        \/ made.error # "SUCCESS" /\ made.walletNull

(***************************************************************************)
(* C27: the saved document holds the format version, the registry and the  *)
(* synchronizer checkpoint and nothing else, and the prepared-transaction  *)
(* cache of a wallet that openWallet returns is empty, whatever was        *)
(* prepared before the save.                                               *)
(***************************************************************************)
JsonKeys(text) == SelectSeq(text, LAMBDA ch : ch >= 97 /\ ch < JsonChar.open)

C27_PreparedNeverPersisted ==
    (made.pc = "returned" /\ made.op = "openWallet" /\ made.error = "SUCCESS") =>
        /\ ~made.walletNull
        /\ DOMAIN made.prepared = {}
        /\ JsonKeys(made.parsed) = <<JsonChar.walletFileFormatVersion,
                                     JsonChar.subWallets, JsonChar.walletSynchronizer>>

C27_Witness ==
    /\ made.pc = "returned" /\ made.op = "openWallet" /\ made.error = "SUCCESS"
    /\ saved.valid
    /\ DOMAIN saved.container.preparedTransactions = Hashes
    /\ made.wallet.subWallets = saved.container.subWallets

(***************************************************************************)
(* C28: a wallet object saves on destruction if and only if its daemon is  *)
(* set; an openWallet that fails, also with                                *)
(* UnsupportedWalletFileFormatVersion after decryption succeeded, leaves   *)
(* the daemon unset, starts no synchronizer and leaves the wallet file as  *)
(* it is, and so does the destruction of the object it made.               *)
(***************************************************************************)
C28_SaveOnDestructionIffInitialized ==
    [][/\ (made.pc = "returned" /\ ~made.walletNull /\ made'.pc = "idle")
            => /\ ~made.daemon => (walletFile' = walletFile /\ saved' = saved)
               /\ (made.daemon /\ fileMode.writable)
                    => /\ walletFile'.exists
                       /\ saved'.valid /\ ~saved'.corrupted
                       /\ saved'.container.subWallets = made.wallet.subWallets
                       /\ saved'.container.scanHeight = made.wallet.scanHeight
                       /\ saved'.password = made.password
                       /\ SaltIn(walletFile'.bytes) = saved'.salt
               /\ (made.daemon /\ ~fileMode.writable)
                    => /\ walletFile' = walletFile
                       /\ saved'.error = "INVALID_WALLET_FILENAME"
               /\ (made.op = "openWallet" /\ made.error # "SUCCESS") => ~made.daemon
       /\ (made.pc = "idle" /\ made'.op = "openWallet" /\ made'.error # "SUCCESS")
            => /\ walletFile' = walletFile
               /\ ~made'.daemon
               /\ ~made'.started]_vars

C28_Witness ==
    /\ made.pc = "returned" /\ made.op = "openWallet"
    /\ made.error = "UNSUPPORTED_WALLET_FILE_FORMAT_VERSION"
    /\ ~made.walletNull
    /\ ~made.daemon
    /\ walletFile.exists

(***************************************************************************)
(* Properties of what is persisted by the lifecycle operations (checked    *)
(* under LifecycleSpec).                                                   *)
(***************************************************************************)
(* The caller is inside unsafeSave: serialising, or about to write.        *)
InUnsafeSave ==
    fg.pc \in DOMAIN AfterSubWalletsJSON
      \/ fg.pc \in {AfterSubWalletsJSON[p] : p \in DOMAIN AfterSubWalletsJSON}

(* C31: the document that save, and the persist step of reset, rewind and  *)
(* scanRange, write is serialised while the synchronizer is paused: the    *)
(* registry part and the checkpoint part of a written document are those   *)
(* of one instant (the registry is at the write what it was when it was    *)
(* serialised), and after reset, rewind and scanRange the document holds   *)
(* the height rolled back to and nothing found at or above it.             *)
C31_SnapshotConsistent ==
    [][/\ (InUnsafeSave /\ fg' # fg)
            => (syncPc = "paused" /\ syncPc' = "paused")
       /\ (InUnsafeSave /\ disk' # disk)
            => /\ disk'.written
               /\ disk'.txs = subWallets.txs
               /\ disk'.scanHeight = scanHeight
               /\ fg.op \in {"reset", "rewind"}
                    => /\ disk'.scanHeight = CutHeight
                       /\ \A h \in disk'.txs : h < CutHeight
               /\ fg.op = "scanRange"
                    => /\ disk'.scanHeight = fg.argHeight
                       /\ \A h \in disk'.txs : h < fg.argHeight]_vars

(* A save has written what the synchronizer found, and a reset that rolled *)
(* back below it has written its document over that.                       *)
C31_Witness ==
    /\ fg.op = "reset"
    /\ fg.pc = "g_exit"
    /\ fg.persist = "SUCCESS" /\ ~fg.threw
    /\ fg.argHeight = 1 /\ fg.argTimestamp = 0
    /\ fg.subWalletsJSON = {}
    /\ disk = [scanHeight |-> 1, txs |-> {}, written |-> TRUE]
    /\ syncPc = "paused"

(***************************************************************************)
(* Properties of the cache and the two locks together.                     *)
(***************************************************************************)
(* C32: every change of the prepared-transaction cache (insert by a        *)
(* deferred prepare, erase by sendPreparedTransaction, erase by a direct   *)
(* removePreparedTransaction) is a step of the thread that holds the       *)
(* transaction lock; so between the lookup and the removal of a            *)
(* sendPreparedTransaction(h) no other thread changes the cache.           *)
C32_CacheMutatedUnderLock ==
    [][(m_preparedTransactions' # m_preparedTransactions)
         => /\ m_transactionMutex # NoThread
            /\ pc'[m_transactionMutex] # pc[m_transactionMutex]]_vars

(* C33: reset, rewind, scanRange, save, changePassword, swapNode and every *)
(* sub-wallet add, import and delete leave the prepared-transaction cache  *)
(* as it is, as does the synchronizer: an entry leaves the cache only in   *)
(* the last step of a sendPreparedTransaction that succeeded or found it   *)
(* expired, or in a removePreparedTransaction; so what was prepared before *)
(* a rewind is in the cache, unchanged, after it.                          *)
C33_LifecycleKeepsCache ==
    [][(fg' # fg \/ syncPc' # syncPc \/ scanHeight' # scanHeight)
         => m_preparedTransactions' = m_preparedTransactions]_vars

(* A rewind by timestamp has rolled back and written, and both prepared    *)
(* transactions are in the cache.                                          *)
C33_Witness ==
    /\ fg.op = "rewind" /\ fg.pc = "g_exit"
    /\ fg.argTimestamp # 0
    /\ disk.written
    /\ DOMAIN m_preparedTransactions = Hashes
    /\ \E h \in Hashes : m_preparedTransactions[h].payload = "tx_b"

(* C34: the transaction lock and the synchronizer guard are never held by  *)
(* one operation: a step that takes or releases m_transactionMutex leaves  *)
(* the guard as it is and is not a step of the lifecycle caller, a step of *)
(* the lifecycle caller or of the guard leaves the lock as it is; no       *)
(* guarded function makes a guarded call (the guard is never entered       *)
(* twice); and nothing deadlocks: whoever holds the lock can take its next *)
(* step, a lifecycle caller inside an operation can take its next step,    *)
(* and while it waits for the acknowledgment the synchronizer can take     *)
(* the step that gives it.                                                 *)
C34_LockAndGuardApart ==
    /\ [](/\ guardDepth <= 1 /\ ~fg.inner
          /\ m_transactionMutex # NoThread
               => /\ pc[m_transactionMutex] # "idle"
                  /\ ENABLED LockTxStep(m_transactionMutex)
          /\ fg.pc \notin {"idle", "g_wait"} => ENABLED LockFgStep
          /\ fg.pc = "g_wait"
               => \/ ENABLED Guard_wait
                  \/ /\ syncPc # "paused"
                     /\ ENABLED SyncStep)
    /\ [][/\ (m_transactionMutex' # m_transactionMutex)
              => /\ fg' = fg
                 /\ guardDepth' = guardDepth
                 /\ pauseRequested' = pauseRequested
          /\ (fg' # fg \/ guardDepth' # guardDepth)
              => /\ m_transactionMutex' = m_transactionMutex
                 /\ pc' = pc]_vars

(* A thread is inside a fusion transaction with the lock while the         *)
(* lifecycle caller is inside the function of a guarded rewind.            *)
C34_Witness ==
    /\ m_transactionMutex # NoThread
    /\ pc[m_transactionMutex] # "idle"
    /\ call[m_transactionMutex].op = "sendFusionTransactionBasic"
    /\ fg.op = "rewind" /\ fg.pc = "rw_save"
    /\ guardDepth = 1
    /\ syncPc = "paused"

(* C35: an import that fails in the registry, or succeeds with a requested *)
(* height strictly above the current scan height, leaves the checkpoint    *)
(* and the transactions of the registry as they were: the two rollback     *)
(* steps are reached only after a success with current height at least the *)
(* requested one, and every other step of the guarded function leaves      *)
(* both alone.                                                             *)
C35_ImportWithoutRescan ==
    /\ [](/\ fg.op \in ImportOps
          /\ fg.pc \in {"im_sync", "ik_subwallets", "ii_subwallets", "iv_subwallets"}
          => /\ fg.result = "SUCCESS"
             /\ scanHeight >= fg.scanHeight \/ fg.syncCut = fg.scanHeight)
    /\ [][/\ fg.op \in ImportOps
          /\ fg.pc \in {"im_import", "im_height", "g_exit"}
          => /\ scanHeight' = scanHeight
             /\ subWallets'.txs = subWallets.txs]_vars

(* An import succeeded with a requested height above the current one: the  *)
(* checkpoint is where it was and the registry still holds what was found. *)
C35_Witness ==
    /\ fg.op \in ImportOps
    /\ fg.pc = "g_exit"
    /\ fg.result = "SUCCESS"
    /\ fg.currentHeight < fg.scanHeight
    /\ fg.syncCut = NoHeight /\ fg.regCut = NoHeight
    /\ scanHeight = fg.currentHeight
    /\ fg.address \in subWallets.addresses
    /\ subWallets.txs # {}

(* C36: when a re-scan is needed the three imports roll back alike: the    *)
(* synchronizer step sets the checkpoint to the requested height in each,  *)
(* and the registry step leaves the registry that the registry call of     *)
(* any of the three variants would leave from the same state.              *)
C36_ImportsRollBackAlike ==
    [][/\ (fg.op \in ImportOps /\ fg.pc = "im_sync")
            => scanHeight' = SynchronizerReset(fg.scanHeight)
       /\ (fg.op \in ImportOps
           /\ fg.pc \in {"ik_subwallets", "ii_subwallets", "iv_subwallets"})
            => \A op \in ImportOps :
                 subWallets' = RegistryRollback(op, subWallets, fg.scanHeight)]_vars

(* C37: a new-wallet constructor that returns an error leaves a file that  *)
(* was at the target path when it was called, readable and writable or     *)
(* not, in place with its contents.                                        *)
C37_ExistingFileKept ==
    [][(/\ made.pc = "idle"
        /\ made'.op \in NewWalletOps
        /\ made'.pc = "returned"
        /\ made'.error # "SUCCESS"
        /\ walletFile.exists)
         => walletFile' = walletFile]_vars

(* C38: a new-wallet constructor that passed the filename check and failed *)
(* at the validation of the seed, the keys or the address leaves no file   *)
(* at the target path, no wallet object and no started synchronizer; the   *)
(* file the writability probe made is removed before the check returns.    *)
C38_FailedValidationLeavesNothing ==
    /\ [](/\ made.op \in NewWalletOps
          /\ made.pc = "returned"
          /\ made.error \notin {"SUCCESS", "WALLET_FILE_ALREADY_EXISTS",
                                "INVALID_WALLET_FILENAME"}
          => /\ made.walletNull
             /\ ~made.started
             /\ ~made.daemon
             /\ made.wallet = NoContainer)
    /\ [][(/\ made.pc = "idle"
           /\ made'.op \in NewWalletOps
           /\ made'.error \notin {"WALLET_FILE_ALREADY_EXISTS", "INVALID_WALLET_FILENAME"})
            => walletFile' = NoFile]_vars

(* importWalletFromSeed of a seed that does not decode, at a path where    *)
(* nothing was: the error is returned and nothing is at the path.          *)
C38_Witness ==
    /\ made.op = "importWalletFromSeed"
    /\ made.pc = "returned"
    /\ made.error \notin {"SUCCESS", "WALLET_FILE_ALREADY_EXISTS", "INVALID_WALLET_FILENAME"}
    /\ ~made.atCall.exists
    /\ made.atCall.writable
    /\ walletFile = NoFile
    /\ made.walletNull

(* ---- the miner's event loop --------------------------------------------- *)
(* The step is the event loop taking an event from the queue and handling  *)
(* it.                                                                     *)
LoopConsumes == eventLoop'.consumed = eventLoop.consumed + 1

(* The loop has returned exactly when blocksLimit is not zero and that     *)
(* many blocks were accepted; with blocksLimit = 0 it has not returned.    *)
LoopReturnsAtLimit ==
    (eventLoop.pc = "returned")
      <=> (m_config.blocksLimit # 0 /\ eventLoop.accepted = m_config.blocksLimit)

(* A rejected submission is not counted and does not end the loop.         *)
RejectedNotCounted ==
    (LoopConsumes /\ Head(m_events).type = "BLOCK_MINED" /\ ~eventLoop'.ok)
      => /\ eventLoop'.blocksMined = eventLoop.blocksMined
         /\ eventLoop'.accepted = eventLoop.accepted
         /\ eventLoop'.pc = "waitEvent"

(* Events leave the queue at its head, in the order of their pushes, one   *)
(* per handling, and enter it at its tail.                                 *)
ConsumedInPushOrder ==
    /\ LoopConsumes
         => /\ m_events # <<>>
            /\ eventLoop'.event = Head(m_events)
            /\ Head(m_events).n = eventLoop.consumed + 1
            /\ m_events' = Tail(m_events)
    /\ (m_events' # m_events /\ ~LoopConsumes)
         => /\ Len(m_events') = Len(m_events) + 1
            /\ SubSeq(m_events', 1, Len(m_events)) = m_events
            /\ m_events'[Len(m_events')].n = minerCount.pushed + 1

(* The step starts a mining task.                                          *)
TaskStarted ==
    /\ minerCount'.spawned = minerCount.spawned + 1
    /\ mining' = mining \cup {minerCount'.spawned}
    /\ minerCount'.spawned \notin mining

(* C39: the event loop returns exactly when blocksLimit is not zero and    *)
(* the accepted BLOCK_MINED events reach it; rejected submissions are not  *)
(* counted; with blocksLimit = 0 the loop never returns; events are        *)
(* consumed in the order of their pushes, each once; and after every       *)
(* BLOCK_MINED that does not end the loop a new mining task is started.    *)
(* The handler starts no task when the fresh parameters are empty.         *)
C39_EventLoop ==
    /\ []LoopReturnsAtLimit
    /\ [][/\ RejectedNotCounted
          /\ ConsumedInPushOrder
          /\ (/\ LoopConsumes
              /\ Head(m_events).type = "BLOCK_MINED"
              /\ eventLoop'.pc # "returned")
               => TaskStarted]_vars

(* C39 as amended: the same, but after a BLOCK_MINED that does not end the *)
(* loop a new mining task is started exactly when the fresh parameters are *)
(* not empty.                                                              *)
C39_EventLoopUnlessEmpty ==
    /\ []LoopReturnsAtLimit
    /\ [][/\ RejectedNotCounted
          /\ ConsumedInPushOrder
          /\ (/\ LoopConsumes
              /\ Head(m_events).type = "BLOCK_MINED"
              /\ eventLoop'.pc # "returned")
               => IF eventLoop'.isEmpty
                  THEN mining' = mining /\ minerCount'.spawned = minerCount.spawned
                  ELSE TaskStarted
          /\ (LoopConsumes /\ eventLoop'.pc = "returned")
               => mining' = mining /\ minerCount'.spawned = minerCount.spawned]_vars

(* With blocksLimit = 2: the first block was accepted, the parameters     *)
(* requested after it were empty, and no task is mining.                   *)
C39_Witness ==
    /\ m_config.blocksLimit = 2
    /\ eventLoop.pc = "waitEvent"
    /\ eventLoop.event.type = "BLOCK_MINED"
    /\ eventLoop.ok
    /\ eventLoop.accepted = 1
    /\ eventLoop.blocksMined = 1
    /\ eventLoop.isEmpty
    /\ minerCount.spawned = 1
    /\ mining = {}

(* C40: at most one mining task is in flight: a task is started only when  *)
(* no earlier task is still mining, and the block submitted on a           *)
(* BLOCK_MINED is the block of the task that raised the event.             *)
C40_OneTaskInFlight ==
    /\ Cardinality(mining) <= 1
    /\ (eventLoop.event.type = "BLOCK_MINED")
         => eventLoop.submitted = eventLoop.event.by

====
